---- MODULE Spec2Model ----
(***************************************************************************)
(* A model of the Faster-Whisper transcription service: the global         *)
(* transcription semaphore and the per-request worker pools                *)
(* (core/transcriber.py, core/MyThreadPool.py, core/processing_strategy.py)*)
(* the model cache (core/model_loader.py), the /transcribe handler         *)
(* (api/endpoints/transcription.py) and the slice pipeline                 *)
(* (core/audio_slicer.py, core/slice_tools/*.py).                          *)
(*                                                                         *)
(* The module holds several specifications over one set of variables.      *)
(* Each specification drives one group of variables and leaves the others  *)
(* at their idle value:                                                    *)
(*   Spec        requests dispatching over per-request pools + semaphore   *)
(*   SpecCache   concurrent get_model calls on the model cache             *)
(*   SpecHandler one /transcribe request and its temporary upload files    *)
(*   SpecSlice   one run of process_slice_strategy with its files on disk  *)
(***************************************************************************)
EXTENDS Integers, Sequences, FiniteSets, TLC

(***************************************************************************)
(* Bounds of the model.                                                    *)
(***************************************************************************)
\* requests in one process (Spec)
NReq == 2
\* tasks (valid files, or slices after compaction) of one request (Spec)
MaxTasks == 3
\* largest value of the environment's MAX_CONCURRENT_LIMIT
MaxLimit == 2
\* largest value of the environment's MAX_CONCURRENT
MaxDefault == 3
\* threads calling get_model (SpecCache)
NCallers == 3
\* files uploaded with one request (SpecHandler)
MaxFiles == 3
\* chunks the slicer cuts one file into (SpecSlice)
MaxSlices == 4
\* longest chunk, in seconds (SpecSlice)
MaxChunkDur == 2
\* largest value of the environment's MAX_TOTAL_SLICES (SpecSlice)
MaxCap == 3
\* whole frames of the file the slicer cuts (SpecSlicer)
MaxFrames == 5
\* silent ranges the slicer finds in one file (SpecSlicer)
MaxTags == 2
\* files of a request of the mixed strategy (SpecMixed)
MaxMixFiles == 3
\* slices slice_audio_file cuts a long file of such a request into (SpecMixed)
MaxMixSlices == 2
\* concurrent calls of transcribe_audio (SpecTranscribe)
NCalls == 3

None == "None"

VARIABLES
    config,     \* CONCURRENCY_CONFIG / AUDIO_SLICE_CONFIG, read from the environment at import
    permits,    \* the value of transcribe_semaphore
    rpc,        \* rpc[r]: where request r's coroutine stands
    req,        \* req[r]: the request's strategy, tasks and pool size
    fut,        \* fut[r][t]: the state of the future of task t
    results,    \* results[r]: the list the as_completed loop appends to
    response,   \* response[r]: the envelope returned, or NotReturned
    \* ---- model cache (core/model_loader.py)
    loaded_models,  \* the dict loaded_models: key -> handle
    load_lock,      \* the holder of _model_load_lock, or 0
    model_dir,      \* model_dir[m]: state of MODELS_DIR/<m> on disk
    caller,         \* caller[c]: position, arguments and outcome of a get_model call
    fetches,        \* fetches[m]: snapshot_download invocations for repo m so far
    constructed,    \* the keys WhisperModel was constructed for, in order; handle h is entry h
    cleared,        \* clear_model_cache has run
    \* ---- the /transcribe handler (api/endpoints/transcription.py)
    hpc,            \* where the handler stands
    hreq,           \* the request: model_name supported, number of files, auto_slice
    temp_files,     \* the temporary upload files on disk
    created,        \* every temporary upload file the handler created
    file_infos,     \* the list file_infos
    hstrategy,      \* processing_strategy
    hresponse,      \* the envelope returned, or NoResponse
    \* ---- one run of process_slice_strategy (core/processing_strategy.py)
    spc,            \* where process_slice_strategy stands
    disk,           \* the slice and merged WAV files on disk
    written,        \* every slice and merged WAV file written so far
    slicer_out,     \* the list slice_audio_file returned
    slice_infos,    \* the local slice_infos
    smax,           \* the max_concurrent argument of process_slice_strategy
    sworkers,       \* max_workers of the pool
    sfut,           \* sfut[t]: the state of the future of slice_infos[t]
    sresults,       \* the local results
    sdata,          \* the data returned, or None
    \* ---- the slicer and the re-anchoring (core/audio_slicer.py)
    kpc,            \* where the slicing of one file stands
    ktags,          \* sil_tags: the silent ranges the slicer removes, in frames
    kframes,        \* total_frames of the file
    kspans,         \* the range of frames of each chunk in the file
    kinfos,         \* the list slice_audio_file returns
    ksegs,          \* results: the re-anchored results in the order they were appended
    kpool,          \* the pool of process_slice_strategy: workers, futures, their results
    \* ---- one call of calculate_optimal_concurrency (core/slice_tools/concurrency_optimizer.py)
    opc,            \* where the call stands
    oin,            \* the arguments and the machine: cores, load sample, total_slices, audio_duration, consider_system_load
    oout,           \* the value returned
    \* ---- a client of the model cache endpoints (api/endpoints/system.py)
    api_pc,         \* where the client stands: before or after its POST /model-cache/clear
    cache_size,     \* cache_size of the last GET /model-cache/status, or -1
    \* ---- process_mixed_strategy (core/processing_strategy.py) on one request
    mpc,            \* where process_mixed_strategy stands
    mfiles,         \* file_infos of the request
    mmax,           \* the max_concurrent query parameter of the request
    mphase,         \* 0 during the batch phase, k while the k-th file of long_audio is processed
    mtask,          \* mtask[p + 1]: the pool of phase p and the state of each task submitted to it
    msliced,        \* the phases whose slice_audio_file call has begun
    mresults,       \* the list results of process_mixed_strategy
    mdata,          \* the data process_mixed_strategy returns
    mdisk,          \* the upload temp files and slice files of the request on disk
    \* ---- calls of transcribe_audio (core/transcriber.py), step by step
    tcall,          \* tcall[c]: position, engine stream and outcome of call c
    tpermits,       \* the value of transcribe_semaphore
    \* ---- the frame loop of AudioSlicer.slice (core/audio_slicer.py) on one waveform
    cutpc,          \* where AudioSlicer.slice stands
    cparams,        \* the arguments of AudioSlicer.__init__ and the attributes it computes
    crms,           \* rms_list: the level of every frame
    ci,             \* i: the frame the loop looks at next
    csil,           \* silence_start, or -1 for None
    cclip,          \* clip_start
    ctags,          \* sil_tags
    cchunks,        \* the chunks returned, each as its range of samples
    csamples        \* the number of samples of the waveform

dispVars == <<permits, rpc, req, fut, results, response>>
cacheVars == <<loaded_models, load_lock, model_dir, caller, fetches, constructed, cleared>>
handlerVars == <<hpc, hreq, temp_files, created, file_infos, hstrategy, hresponse>>
sliceVars == <<spc, disk, written, slicer_out, slice_infos, smax, sworkers, sfut, sresults, sdata>>
slicerVars == <<kpc, ktags, kframes, kspans, kinfos, ksegs, kpool>>
optVars == <<opc, oin, oout>>
apiVars == <<api_pc, cache_size>>
mixedVars == <<mpc, mfiles, mmax, mphase, mtask, msliced, mresults, mdata, mdisk>>
transcribeVars == <<tcall, tpermits>>
cutVars == <<cutpc, cparams, crms, ci, csil, cclip, ctags, cchunks, csamples>>
\* the groups each specification leaves alone
notDisp == <<cacheVars, handlerVars, sliceVars, slicerVars, optVars, apiVars, mixedVars, transcribeVars, cutVars>>
notCache == <<dispVars, handlerVars, sliceVars, slicerVars, optVars, apiVars, mixedVars, transcribeVars, cutVars>>
notHandler == <<dispVars, cacheVars, sliceVars, slicerVars, optVars, apiVars, mixedVars, transcribeVars, cutVars>>
notSlice == <<dispVars, cacheVars, handlerVars, slicerVars, optVars, apiVars, mixedVars, transcribeVars, cutVars>>
notSlicer == <<dispVars, cacheVars, handlerVars, sliceVars, optVars, apiVars, mixedVars, transcribeVars, cutVars>>
notOpt == <<dispVars, cacheVars, handlerVars, sliceVars, slicerVars, apiVars, mixedVars, transcribeVars, cutVars>>
notApi == <<dispVars, cacheVars, handlerVars, sliceVars, slicerVars, optVars, mixedVars, transcribeVars, cutVars>>
notMixed == <<dispVars, cacheVars, handlerVars, sliceVars, slicerVars, optVars, apiVars, transcribeVars, cutVars>>
notTranscribe == <<dispVars, cacheVars, handlerVars, sliceVars, slicerVars, optVars, apiVars, mixedVars, cutVars>>
notCut == <<dispVars, cacheVars, handlerVars, sliceVars, slicerVars, optVars, apiVars, mixedVars, transcribeVars>>
vars == <<config, dispVars, cacheVars, handlerVars, sliceVars, slicerVars, optVars, apiVars, mixedVars, transcribeVars, cutVars>>

Min(a, b) == IF a <= b THEN a ELSE b
Max(a, b) == IF a >= b THEN a ELSE b
Max3(a, b, c) == Max(a, Max(b, c))
\* math.ceil(a / b) for a >= 0, b > 0
CeilDiv(a, b) == (a + b - 1) \div b

(***************************************************************************)
(* config/settings.py                                                      *)
(***************************************************************************)
\* the defaults of CONCURRENCY_CONFIG and AUDIO_SLICE_CONFIG
DefaultConfig ==
    [ default_max_concurrent |-> 2,
      min_concurrent_limit   |-> 1,
      max_concurrent_limit   |-> 3,
      slices_per_thread      |-> 4,
      max_total_slices       |-> 144 ]

\* os.cpu_count() or 4, on the machines considered
CoreChoices == {1, 2, 4, 8}
\* psutil samples: cpu_percent, memory percent, or a sampling failure
LoadSamples ==
    { [ok |-> TRUE, cpu |-> 10, mem |-> 10],
      [ok |-> TRUE, cpu |-> 70, mem |-> 10],
      [ok |-> TRUE, cpu |-> 10, mem |-> 90],
      [ok |-> FALSE, cpu |-> 0, mem |-> 0] }
\* audio durations in seconds of files that require slicing (> 480 s)
LongDurations == {600, 2400, 4000}

(***************************************************************************)
(* core/slice_tools/concurrency_optimizer.py                               *)
(***************************************************************************)
calculate_cpu_based(cores) ==
    IF cores <= 4 THEN Max(1, cores - 1)
    ELSE IF cores <= 8 THEN Max(2, cores - 2)
    ELSE IF cores <= 16 THEN Max(4, cores - 4)
    ELSE IF cores <= 32 THEN Max(8, cores - 8)
    ELSE Min(32, (cores * 3) \div 4)

calculate_slice_based(cfg, total_slices) ==
    IF total_slices <= 5 THEN Min(2, total_slices)
    ELSE IF total_slices <= 20 THEN Min(8, CeilDiv(total_slices, cfg.slices_per_thread))
    ELSE IF total_slices <= 50 THEN Min(16, CeilDiv(total_slices, cfg.slices_per_thread))
    ELSE IF total_slices <= 100 THEN Min(24, CeilDiv(total_slices, cfg.slices_per_thread))
    ELSE Min(cfg.max_concurrent_limit, CeilDiv(total_slices, cfg.slices_per_thread))

\* duration_minutes > 60 is audio_duration > 3600 seconds
calculate_duration_based(cfg, cores, audio_duration) ==
    IF audio_duration > 3600
    THEN Min(cfg.max_concurrent_limit, Max(4, (cores * 4) \div 5))
    ELSE IF audio_duration > 1800
    THEN Min(cfg.max_concurrent_limit, Max(3, (cores * 3) \div 5))
    ELSE Min(cfg.max_concurrent_limit, Max(2, cores \div 2))

calculate_load_based(cores, load) ==
    IF ~load.ok THEN Max(2, cores - 2)
    ELSE IF load.cpu > 80 \/ load.mem > 80 THEN Max(1, cores \div 2)
    ELSE IF load.cpu > 60 THEN Max(2, cores - 2)
    ELSE cores

\* calculate_optimal_concurrency without the lower clamp of line 54
calculate_optimal_unclamped(cfg, cores, load, total_slices, audio_duration, consider_system_load) ==
    LET cpu_based == calculate_cpu_based(cores)
        load_based == IF consider_system_load
                      THEN calculate_load_based(cores, load)
                      ELSE cpu_based
    IN  Min(Min(cpu_based, cfg.max_concurrent_limit),
            Max3(calculate_slice_based(cfg, total_slices),
                 calculate_duration_based(cfg, cores, audio_duration),
                 load_based))

\* calculate_optimal_concurrency without the hard limit of line 51
calculate_optimal_soft(cfg, cores, load, total_slices, audio_duration, consider_system_load) ==
    LET cpu_based == calculate_cpu_based(cores)
        load_based == IF consider_system_load
                      THEN calculate_load_based(cores, load)
                      ELSE cpu_based
    IN  Max(Max3(calculate_slice_based(cfg, total_slices),
                 calculate_duration_based(cfg, cores, audio_duration),
                 load_based),
            cfg.min_concurrent_limit)

calculate_optimal_concurrency(cfg, cores, load, total_slices, audio_duration, consider_system_load) ==
    LET cpu_based == calculate_cpu_based(cores)
        slice_based == calculate_slice_based(cfg, total_slices)
        duration_based == calculate_duration_based(cfg, cores, audio_duration)
        load_based == IF consider_system_load
                      THEN calculate_load_based(cores, load)
                      ELSE cpu_based
        soft_recommend == Max3(slice_based, duration_based, load_based)
        hard_limit == Min(cpu_based, cfg.max_concurrent_limit)
        optimal == Min(hard_limit, soft_recommend)
    IN  Max(optimal, cfg.min_concurrent_limit)

(***************************************************************************)
(* core/MyThreadPool.py and core/transcriber.py: the semaphore             *)
(***************************************************************************)
\* GLOBAL_TRANSCRIBE_LIMIT: Semaphore(MAX_CONCURRENT)
MAX_CONCURRENT(cfg) == cfg.max_concurrent_limit

\* a semaphore whose acquire never blocks
SemCanAcquireUnbounded(p) == TRUE

\* transcribe_semaphore.acquire() returns only when the value is positive
SemCanAcquire(p) == p > 0
SemAcquire(p) == p - 1
SemRelease(p) == p + 1

(***************************************************************************)
(* Spec: the requests of one process.  The handler and the strategies are  *)
(* coroutines on the process's single event loop thread, and a strategy    *)
(* submits its tasks and iterates as_completed without awaiting: from the  *)
(* submit to the return of the strategy the event loop thread runs this    *)
(* request only, while the pool's worker threads run in parallel.          *)
(***************************************************************************)
Requests == 1..NReq

IdleReq == [kind |-> "none", n |-> 0, workers |-> 0, ids |-> <<>>, total_files |-> 0]

\* the tasks of request r
Tasks(r) == 1..req[r].n

\* the event loop thread is not inside a strategy's dispatch
LoopFree == \A r \in Requests : rpc[r] # "dispatch"

\* tasks a worker thread of the pool of r is running
Busy(r) == {t \in Tasks(r) : fut[r][t] \in {"waiting", "engine"}}
Queued(r) == {t \in Tasks(r) : fut[r][t] = "queued"}
Finished(r) == {t \in Tasks(r) : fut[r][t] \in {"ok", "err"}}
Collected(r) == {results[r][i].task : i \in 1..Len(results[r])}

\* workers between transcribe_semaphore.acquire() and release()
InFlight == Cardinality({<<r, t>> \in Requests \X (1..MaxTasks) :
                            t \in Tasks(r) /\ fut[r][t] = "engine"})

\* ApiResponse.success_response / error_response
success_response(data) == [success |-> TRUE, code |-> 200, data |-> data]
error_response(code) == [success |-> FALSE, code |-> code, data |-> None]
\* the handler has not returned yet
NoResponse == [success |-> FALSE, code |-> 0, data |-> None]
\* the strategy of a request has not returned: a payload without results
NoPayload == [strategy |-> "none"]
NotReturned == [success |-> FALSE, code |-> 0, data |-> NoPayload]

\* valid_files = [info for info in file_infos if info["content_type"] in ALLOWED_AUDIO_TYPES]
\* infos[i] is TRUE when file i has an allowed content type; a file is named by i
RECURSIVE ValidFrom(_, _)
ValidFrom(infos, i) ==
    IF i > Len(infos) THEN <<>>
    ELSE (IF infos[i] THEN <<i>> ELSE <<>>) \o ValidFrom(infos, i + 1)

valid_files(infos) == ValidFrom(infos, 1)

\* effective_concurrent of process_batch_strategy
effective_concurrent(cfg, max_concurrent, nvalid) ==
    Min(IF max_concurrent.pinned THEN max_concurrent.value ELSE cfg.default_max_concurrent,
        nvalid)

\* pinned max_concurrent used verbatim, without line 112
slice_concurrency_verbatim(cfg, max_concurrent, nslices, cores, load, duration, consider_system_load) ==
    IF ~max_concurrent.pinned
    THEN calculate_optimal_concurrency(cfg, cores, load, nslices, duration, consider_system_load)
    ELSE max_concurrent.value

\* max_concurrent of process_slice_strategy after lines 104-112
slice_concurrency(cfg, max_concurrent, nslices, cores, load, duration, consider_system_load) ==
    IF ~max_concurrent.pinned
    THEN calculate_optimal_concurrency(cfg, cores, load, nslices, duration, consider_system_load)
    ELSE Min(max_concurrent.value, nslices)

\* the max_concurrent query parameter: absent, or within [MIN, MAX]_CONCURRENT_LIMIT
Unpinned == [pinned |-> FALSE, value |-> 0]
MaxConcurrentChoices(cfg) ==
    {Unpinned} \cup {[pinned |-> TRUE, value |-> v] :
                        v \in cfg.min_concurrent_limit..cfg.max_concurrent_limit}

\* the error result of process_slice_strategy's except branch
slice_failure_data == [strategy |-> "sliced_parallel", slice_count |-> 0,
                       error |-> "slice processing failed"]

\* the counters of aggregate_results
RECURSIVE CountErrors(_)
CountErrors(rs) ==
    IF rs = <<>> THEN 0
    ELSE (IF Head(rs).error THEN 1 ELSE 0) + CountErrors(Tail(rs))

aggregate_counts(slice_results) ==
    LET total_slices == Len(slice_results)
        failed_slices == CountErrors(slice_results)
    IN  [total_slices |-> total_slices,
         successful_slices |-> total_slices - failed_slices,
         failed_slices |-> failed_slices]

\* the dispatch group at rest
DispIdle ==
    /\ permits = 0
    /\ rpc = <<>>
    /\ req = <<>>
    /\ fut = <<>>
    /\ results = <<>>
    /\ response = <<>>

\* the model cache group at rest
CacheIdle ==
    /\ loaded_models = <<>>
    /\ load_lock = 0
    /\ model_dir = <<>>
    /\ caller = <<>>
    /\ fetches = <<>>
    /\ constructed = <<>>
    /\ cleared = FALSE

\* the handler group at rest
HandlerIdle ==
    /\ hpc = "idle"
    /\ hreq = <<>>
    /\ temp_files = {}
    /\ created = {}
    /\ file_infos = <<>>
    /\ hstrategy = None
    /\ hresponse = <<>>

\* the slice pipeline group at rest
SliceIdle ==
    /\ spc = "idle"
    /\ disk = {}
    /\ written = {}
    /\ slicer_out = <<>>
    /\ slice_infos = <<>>
    /\ smax = [pinned |-> FALSE, value |-> 0]
    /\ sworkers = 0
    /\ sfut = <<>>
    /\ sresults = <<>>
    /\ sdata = <<>>

\* the slicer group at rest
SlicerIdle ==
    /\ kpc = "idle"
    /\ ktags = <<>>
    /\ kframes = 0
    /\ kspans = <<>>
    /\ kinfos = <<>>
    /\ ksegs = <<>>
    /\ kpool = [workers |-> 0, st |-> <<>>, out |-> <<>>]

\* the optimizer group at rest
OptIdle ==
    /\ opc = "idle"
    /\ oin = <<>>
    /\ oout = 0

\* the model cache endpoints' client at rest
ApiIdle ==
    /\ api_pc = "idle"
    /\ cache_size = -1

\* the mixed group at rest
MixedIdle ==
    /\ mpc = "idle"
    /\ mfiles = <<>>
    /\ mmax = Unpinned
    /\ mphase = 0
    /\ mtask = <<>>
    /\ msliced = {}
    /\ mresults = <<>>
    /\ mdata = [strategy |-> "none", total_files |-> 0, processed_files |-> 0]
    /\ mdisk = {}

\* the transcribe group at rest
TranscribeIdle ==
    /\ tcall = <<>>
    /\ tpermits = 0

\* the cut group at rest
CutIdle ==
    /\ cutpc = "idle"
    /\ cparams = <<>>
    /\ crms = <<>>
    /\ ci = 0
    /\ csil = -1
    /\ cclip = 0
    /\ ctags = <<>>
    /\ cchunks = <<>>
    /\ csamples = 0

DispInit ==
    /\ CacheIdle
    /\ HandlerIdle
    /\ SliceIdle
    /\ SlicerIdle
    /\ OptIdle
    /\ ApiIdle
    /\ MixedIdle
    /\ TranscribeIdle
    /\ CutIdle
    /\ config \in {[DefaultConfig EXCEPT !.max_concurrent_limit = l,
                                         !.default_max_concurrent = d] :
                       l \in 1..MaxLimit, d \in 1..MaxDefault}
    /\ permits = MAX_CONCURRENT(config)
    /\ rpc = [r \in Requests |-> "ready"]
    /\ req = [r \in Requests |-> IdleReq]
    /\ fut = [r \in Requests |-> <<>>]
    /\ results = [r \in Requests |-> <<>>]
    /\ response = [r \in Requests |-> NotReturned]

\* process_batch_strategy up to the submit of every valid file
BeginBatch(r) ==
    /\ rpc[r] = "ready"
    /\ LoopFree
    /\ \E nfiles \in 1..MaxTasks :
       \E infos \in [1..nfiles -> BOOLEAN] :
       \E max_concurrent \in MaxConcurrentChoices(config) :
          LET valid == valid_files(infos) IN
          IF valid = <<>>
          THEN /\ response' = [response EXCEPT ![r] = success_response(
                        [strategy |-> "batch_parallel", total_files |-> nfiles,
                         processed_files |-> 0, error |-> "Invalid Audio Files"])]
               /\ rpc' = [rpc EXCEPT ![r] = "done"]
               /\ UNCHANGED <<req, fut>>
          ELSE /\ req' = [req EXCEPT ![r] =
                        [kind |-> "batch", n |-> Len(valid),
                         workers |-> effective_concurrent(config, max_concurrent, Len(valid)),
                         ids |-> valid, total_files |-> nfiles]]
               /\ fut' = [fut EXCEPT ![r] = [t \in 1..Len(valid) |-> "queued"]]
               /\ rpc' = [rpc EXCEPT ![r] = "dispatch"]
               /\ UNCHANGED response
    /\ UNCHANGED <<config, permits, results, notDisp>>

\* process_slice_strategy from the sized pool to the submit of every slice;
\* nslices is the length of slice_infos after slicing and compaction
BeginSlice(r) ==
    /\ rpc[r] = "ready"
    /\ LoopFree
    /\ \E nslices \in 0..MaxTasks :
       \E max_concurrent \in MaxConcurrentChoices(config) :
       \E cores \in CoreChoices, load \in LoadSamples, duration \in LongDurations :
       \E consider_system_load \in BOOLEAN :
          LET workers == slice_concurrency(config, max_concurrent, nslices, cores, load,
                                           duration, consider_system_load) IN
          IF workers <= 0
          THEN \* ThreadPoolExecutor(max_workers = 0) raises ValueError
               /\ response' = [response EXCEPT ![r] = success_response(slice_failure_data)]
               /\ rpc' = [rpc EXCEPT ![r] = "done"]
               /\ UNCHANGED <<req, fut>>
          ELSE /\ req' = [req EXCEPT ![r] =
                        [kind |-> "slice", n |-> nslices, workers |-> workers,
                         ids |-> [t \in 1..nslices |-> t - 1], total_files |-> 1]]
               /\ fut' = [fut EXCEPT ![r] = [t \in 1..nslices |-> "queued"]]
               /\ rpc' = [rpc EXCEPT ![r] = "dispatch"]
               /\ UNCHANGED response
    /\ UNCHANGED <<config, permits, results, notDisp>>

\* a worker thread of the pool takes the oldest queued task and calls
\* process_file / process_slice, which calls transcribe_audio
WorkerStart(r, t) ==
    /\ rpc[r] = "dispatch"
    /\ t \in Queued(r)
    /\ \A u \in Queued(r) : t <= u
    /\ Cardinality(Busy(r)) < req[r].workers
    /\ fut' = [fut EXCEPT ![r][t] = "waiting"]
    /\ UNCHANGED <<config, permits, rpc, req, results, response, notDisp>>

\* transcribe_audio: transcribe_semaphore.acquire()
Acquire(r, t) ==
    /\ t \in Tasks(r)
    /\ fut[r][t] = "waiting"
    /\ SemCanAcquire(permits)
    /\ permits' = SemAcquire(permits)
    /\ fut' = [fut EXCEPT ![r][t] = "engine"]
    /\ UNCHANGED <<config, rpc, req, results, response, notDisp>>

\* transcribe_audio that returns its dict without releasing the permit
EngineReturnNoRelease(r, t) ==
    /\ t \in Tasks(r)
    /\ fut[r][t] = "engine"
    /\ fut' = [fut EXCEPT ![r][t] = "ok"]
    /\ UNCHANGED <<config, permits, rpc, req, results, response, notDisp>>

\* transcribe_audio: the engine call returns, the result dict is built,
\* finally releases the permit
EngineReturn(r, t) ==
    /\ t \in Tasks(r)
    /\ fut[r][t] = "engine"
    /\ permits' = SemRelease(permits)
    /\ fut' = [fut EXCEPT ![r][t] = "ok"]
    /\ UNCHANGED <<config, rpc, req, results, response, notDisp>>

\* transcribe_audio with the release on the success path only
EngineRaiseNoRelease(r, t) ==
    /\ t \in Tasks(r)
    /\ fut[r][t] = "engine"
    /\ fut' = [fut EXCEPT ![r][t] = "err"]
    /\ UNCHANGED <<config, permits, rpc, req, results, response, notDisp>>

\* transcribe_audio: the engine call (or list(segments)) raises, the except
\* branch returns {"error": ...}, finally releases the permit
EngineRaise(r, t) ==
    /\ t \in Tasks(r)
    /\ fut[r][t] = "engine"
    /\ permits' = SemRelease(permits)
    /\ fut' = [fut EXCEPT ![r][t] = "err"]
    /\ UNCHANGED <<config, rpc, req, results, response, notDisp>>

\* the entry the as_completed loop appends for task t: process_file sets
\* filename, process_slice sets slice_index; "error" is present when the
\* engine call failed
result_entry(r, t) ==
    [task |-> t, id |-> req[r].ids[t], error |-> (fut[r][t] = "err")]

\* one iteration of `for future in as_completed(futures)`
Collect(r, t) ==
    /\ rpc[r] = "dispatch"
    /\ t \in Finished(r) \ Collected(r)
    /\ results' = [results EXCEPT ![r] = Append(@, result_entry(r, t))]
    /\ UNCHANGED <<config, permits, rpc, req, fut, response, notDisp>>

\* the data a strategy returns once as_completed is exhausted; the list
\* "results" of the payload is kept by its length and its number of error entries
strategy_data(r) ==
    IF req[r].kind = "batch"
    THEN [strategy |-> "batch_parallel", total_files |-> req[r].total_files,
          processed_files |-> Len(results[r]), errors |-> CountErrors(results[r])]
    ELSE [strategy |-> "sliced_parallel", slice_count |-> req[r].n]
         @@ aggregate_counts(results[r])

\* a dispatch that gives up on its siblings at the first error entry
FinishAtFirstError(r) ==
    /\ rpc[r] = "dispatch"
    /\ \/ Collected(r) = Tasks(r)
       \/ \E i \in 1..Len(results[r]) : results[r][i].error
    /\ response' = [response EXCEPT ![r] = success_response(strategy_data(r))]
    /\ rpc' = [rpc EXCEPT ![r] = "done"]
    /\ req' = [req EXCEPT ![r] = IdleReq]
    /\ fut' = [fut EXCEPT ![r] = <<>>]
    /\ results' = [results EXCEPT ![r] = <<>>]
    /\ UNCHANGED <<config, permits, notDisp>>

\* as_completed is exhausted, the pool is shut down, the strategy returns
\* and the handler returns ApiResponse.success_response; the request's
\* locals (futures, results) are gone
Finish(r) ==
    /\ rpc[r] = "dispatch"
    /\ Collected(r) = Tasks(r)
    /\ response' = [response EXCEPT ![r] = success_response(strategy_data(r))]
    /\ rpc' = [rpc EXCEPT ![r] = "done"]
    /\ req' = [req EXCEPT ![r] = IdleReq]
    /\ fut' = [fut EXCEPT ![r] = <<>>]
    /\ results' = [results EXCEPT ![r] = <<>>]
    /\ UNCHANGED <<config, permits, notDisp>>

DispNext ==
    \E r \in Requests :
        \/ BeginBatch(r)
        \/ BeginSlice(r)
        \/ Finish(r)
        \/ \E t \in 1..MaxTasks :
              \/ WorkerStart(r, t)
              \/ Acquire(r, t)
              \/ EngineReturn(r, t)
              \/ EngineRaise(r, t)
              \/ Collect(r, t)

Spec == DispInit /\ [][DispNext]_vars

(***************************************************************************)
(* SpecLive: Spec with the scheduling the program runs under.  The         *)
(* operating system keeps running the threads that can take a step: a free *)
(* worker of a pool takes a queued task, a waiter on the semaphore is      *)
(* woken when a permit is free, every engine call ends by returning or     *)
(* raising, and the event loop thread goes on with the as_completed loop   *)
(* it is in.  Nothing obliges a client to send a request.                  *)
(***************************************************************************)
\* a step of a worker thread or of the event loop inside a dispatch
DispProgress ==
    \E r \in Requests :
        \/ Finish(r)
        \/ \E t \in 1..MaxTasks :
              \/ WorkerStart(r, t)
              \/ Acquire(r, t)
              \/ EngineReturn(r, t)
              \/ EngineRaise(r, t)
              \/ Collect(r, t)

\* a process whose pools are larger than its semaphore: MAX_CONCURRENT_LIMIT
\* is 1 and the default of MAX_CONCURRENT is above it
LiveInit ==
    /\ DispInit
    /\ config.default_max_concurrent = MaxDefault
    /\ config.max_concurrent_limit = 1

SpecLive == LiveInit /\ [][DispNext]_vars /\ WF_vars(DispProgress)

(***************************************************************************)
(* SpecCache: threads calling get_model (core/model_loader.py) and          *)
(* clear_model_cache (core/model_manager.py).  Each read and each write of  *)
(* loaded_models, of the lock and of the model directory is one step.       *)
(***************************************************************************)
Callers == 1..NCallers

\* DEVICE_COMPUTE_COMPATIBILITY; the first entry is the fallback
DEVICE_COMPUTE_COMPATIBILITY ==
    [ cpu |-> <<"float32", "int8">>,
      cuda |-> <<"float16", "float32", "int8">> ]
SupportedDevices == DOMAIN DEVICE_COMPUTE_COMPATIBILITY
Compat(device) ==
    {DEVICE_COMPUTE_COMPATIBILITY[device][i] :
        i \in 1..Len(DEVICE_COMPUTE_COMPATIBILITY[device])}

\* the arguments callers pass
ModelNames == {"faster-whisper-small", "faster-whisper-large-v3-turbo"}
ArgDevices == {"cpu", "tpu"}
ArgComputeTypes == {"float16", "float32", "int8"}

\* get_model using the compute type as it was passed
coerce_verbatim(device, compute_type) == compute_type

\* compute_type after the fallback of lines 21-24
coerce(device, compute_type) ==
    IF compute_type \in Compat(device) THEN compute_type
    ELSE DEVICE_COMPUTE_COMPATIBILITY[device][1]

\* key = f"{model_name}_{device}_{compute_type}", kept as the triple it is built from
cache_key(model_name, device, compute_type) == <<model_name, device, compute_type>>

\* args: the arguments of the call as passed; built: this call downloaded (or
\* found) the model files and constructed the handle; held: the holder of the
\* lock when the call read loaded_models[key] on the fast path
IdleCaller ==
    [pc |-> "idle", args |-> <<>>, key |-> <<>>, ret |-> 0, slow |-> FALSE, built |-> FALSE,
     held |-> 0]

CacheInit ==
    /\ DispIdle
    /\ HandlerIdle
    /\ SliceIdle
    /\ SlicerIdle
    /\ OptIdle
    /\ ApiIdle
    /\ MixedIdle
    /\ TranscribeIdle
    /\ CutIdle
    /\ config = DefaultConfig
    /\ loaded_models = <<>>
    /\ load_lock = 0
    /\ model_dir \in [ModelNames -> {"missing", "complete"}]
    /\ caller = [c \in Callers |-> IdleCaller]
    /\ fetches = [m \in ModelNames |-> 0]
    /\ constructed = <<>>
    /\ cleared = FALSE

Cached(key) == key \in DOMAIN loaded_models

\* leaving the `with _model_load_lock` block, normally or by an exception
ReleaseLock == load_lock' = 0

\* the caller after lines 17-27 of get_model: device validation, compute type
\* fallback, cache key
get_model_entry(c, model_name, device, compute_type) ==
    IF device \notin SupportedDevices
    THEN [caller[c] EXCEPT !.pc = "raised",
                           !.args = <<model_name, device, compute_type>>,
                           !.key = <<>>]
    ELSE [caller[c] EXCEPT !.pc = "check",
                           !.args = <<model_name, device, compute_type>>,
                           !.key = cache_key(model_name, device,
                                             coerce(device, compute_type))]

\* get_model is called (api/endpoints/transcription.py line 65)
GetStart(c) ==
    /\ caller[c].pc = "idle"
    /\ \E model_name \in ModelNames, device \in ArgDevices, compute_type \in ArgComputeTypes :
          caller' = [caller EXCEPT ![c] = get_model_entry(c, model_name, device, compute_type)]
    /\ UNCHANGED <<config, loaded_models, load_lock, model_dir, fetches, constructed,
                   cleared, notCache>>

\* model_manager.get_cached_model is called: its key is built from the
\* arguments as passed (line 19)
ManagerStart(c) ==
    /\ caller[c].pc = "idle"
    /\ \E model_name \in ModelNames, device \in ArgDevices, compute_type \in ArgComputeTypes :
          caller' = [caller EXCEPT
                    ![c].pc = "precheck",
                    ![c].args = <<model_name, device, compute_type>>,
                    ![c].key = cache_key(model_name, device, compute_type)]
    /\ UNCHANGED <<config, loaded_models, load_lock, model_dir, fetches, constructed,
                   cleared, notCache>>

\* `if key in loaded_models:` of get_cached_model (line 22); on a miss
\* get_model runs in the executor with the same arguments (lines 29-35)
ManagerCheck(c) ==
    /\ caller[c].pc = "precheck"
    /\ caller' = [caller EXCEPT ![c] =
            IF Cached(caller[c].key)
            THEN [caller[c] EXCEPT !.pc = "fast_read"]
            ELSE get_model_entry(c, caller[c].args[1], caller[c].args[2],
                                 caller[c].args[3])]
    /\ UNCHANGED <<config, loaded_models, load_lock, model_dir, fetches, constructed,
                   cleared, notCache>>

\* get_model without the look before the lock
FastCheckSkipped(c) ==
    /\ caller[c].pc = "check"
    /\ caller' = [caller EXCEPT ![c].pc = "wait_lock", ![c].slow = TRUE]
    /\ UNCHANGED <<config, loaded_models, load_lock, model_dir, fetches, constructed,
                   cleared, notCache>>

\* `if key in loaded_models:` before the lock
FastCheck(c) ==
    /\ caller[c].pc = "check"
    /\ caller' = [caller EXCEPT ![c].pc = IF Cached(caller[c].key) THEN "fast_read"
                                           ELSE "wait_lock",
                                ![c].slow = ~Cached(caller[c].key)]
    /\ UNCHANGED <<config, loaded_models, load_lock, model_dir, fetches, constructed,
                   cleared, notCache>>

\* the caller after `return loaded_models[key]`: it holds the handle, or
\* KeyError was raised because the key is gone
ReadResult(c) ==
    [caller[c] EXCEPT
        !.pc = IF Cached(caller[c].key) THEN "returned" ELSE "raised",
        !.ret = IF Cached(caller[c].key) THEN loaded_models[caller[c].key] ELSE 0]

\* `return loaded_models[key]` of the fast path (line 30 of get_model, line
\* 24 of get_cached_model)
FastRead(c) ==
    /\ caller[c].pc = "fast_read"
    /\ caller' = [caller EXCEPT ![c] = [ReadResult(c) EXCEPT !.held = load_lock]]
    /\ UNCHANGED <<config, loaded_models, load_lock, model_dir, fetches, constructed,
                   cleared, notCache>>

\* `return loaded_models[key]` after the with block (line 68)
FinalRead(c) ==
    /\ caller[c].pc = "final_read"
    /\ caller' = [caller EXCEPT ![c] = ReadResult(c)]
    /\ UNCHANGED <<config, loaded_models, load_lock, model_dir, fetches, constructed,
                   cleared, notCache>>

\* `with _model_load_lock:` entered
LockAcquire(c) ==
    /\ caller[c].pc = "wait_lock"
    /\ load_lock = 0
    /\ load_lock' = c
    /\ caller' = [caller EXCEPT ![c].pc = "locked"]
    /\ UNCHANGED <<config, loaded_models, model_dir, fetches, constructed, cleared, notCache>>

\* get_model without the second look under the lock
LockedNoRecheck(c) ==
    /\ caller[c].pc = "locked"
    /\ caller' = [caller EXCEPT ![c].pc = "dir"]
    /\ UNCHANGED <<config, loaded_models, load_lock, model_dir, fetches, constructed,
                   cleared, notCache>>

\* `if key not in loaded_models:` under the lock
LockedCheck(c) ==
    /\ caller[c].pc = "locked"
    /\ IF Cached(caller[c].key)
       THEN /\ ReleaseLock
            /\ caller' = [caller EXCEPT ![c].pc = "final_read"]
       ELSE /\ caller' = [caller EXCEPT ![c].pc = "dir"]
            /\ UNCHANGED load_lock
    /\ UNCHANGED <<config, loaded_models, model_dir, fetches, constructed, cleared, notCache>>

\* `if not os.path.exists(model_dir): os.makedirs(model_dir)`
DirCheck(c) ==
    /\ caller[c].pc = "dir"
    /\ LET m == caller[c].key[1] IN
       IF model_dir[m] = "missing"
       THEN /\ model_dir' = [model_dir EXCEPT ![m] = "partial"]
            /\ caller' = [caller EXCEPT ![c].pc = "download"]
       ELSE /\ caller' = [caller EXCEPT ![c].pc = "construct"]
            /\ UNCHANGED model_dir
    /\ UNCHANGED <<config, loaded_models, load_lock, fetches, constructed, cleared, notCache>>

\* snapshot_download returns
DownloadOk(c) ==
    /\ caller[c].pc = "download"
    /\ LET m == caller[c].key[1] IN
       /\ fetches' = [fetches EXCEPT ![m] = @ + 1]
       /\ model_dir' = [model_dir EXCEPT ![m] = "complete"]
    /\ caller' = [caller EXCEPT ![c].pc = "construct"]
    /\ UNCHANGED <<config, loaded_models, load_lock, constructed, cleared, notCache>>

\* snapshot_download raises: RuntimeError leaves the with block
DownloadFail(c) ==
    /\ caller[c].pc = "download"
    /\ fetches' = [fetches EXCEPT ![caller[c].key[1]] = @ + 1]
    /\ ReleaseLock
    /\ caller' = [caller EXCEPT ![c].pc = "raised"]
    /\ UNCHANGED <<config, loaded_models, model_dir, constructed, cleared, notCache>>

\* WhisperModel(model_dir, local_files_only=True) returns a handle, which is
\* stored under the key (line 58); the lock is still held
ConstructOk(c) ==
    /\ caller[c].pc = "construct"
    /\ model_dir[caller[c].key[1]] = "complete"
    /\ constructed' = Append(constructed, caller[c].key)
    /\ loaded_models' = [k \in DOMAIN loaded_models \cup {caller[c].key} |->
                            IF k = caller[c].key THEN Len(constructed) + 1
                            ELSE loaded_models[k]]
    /\ caller' = [caller EXCEPT ![c].pc = "stored", ![c].built = TRUE]
    /\ UNCHANGED <<config, load_lock, model_dir, fetches, cleared, notCache>>

\* the with block is left after the store (lines 64-66)
LeaveWith(c) ==
    /\ caller[c].pc = "stored"
    /\ ReleaseLock
    /\ caller' = [caller EXCEPT ![c].pc = "final_read"]
    /\ UNCHANGED <<config, loaded_models, model_dir, fetches, constructed, cleared, notCache>>

\* get_model storing an entry under the key before the constructor returned
ConstructFailCaches(c) ==
    /\ caller[c].pc = "construct"
    /\ loaded_models' = [k \in DOMAIN loaded_models \cup {caller[c].key} |->
                            IF k = caller[c].key THEN 0 ELSE loaded_models[k]]
    /\ ReleaseLock
    /\ caller' = [caller EXCEPT ![c].pc = "raised"]
    /\ UNCHANGED <<config, model_dir, fetches, constructed, cleared, notCache>>

\* WhisperModel raises (always so on a directory without the model files)
ConstructFail(c) ==
    /\ caller[c].pc = "construct"
    /\ ReleaseLock
    /\ caller' = [caller EXCEPT ![c].pc = "raised"]
    /\ UNCHANGED <<config, loaded_models, model_dir, fetches, constructed, cleared, notCache>>

\* model_manager.clear_model_cache: `with _model_load_lock: loaded_models.clear()`
ClearCache ==
    /\ load_lock = 0
    /\ loaded_models # <<>>
    /\ loaded_models' = <<>>
    /\ cleared' = TRUE
    /\ UNCHANGED <<config, load_lock, model_dir, caller, fetches, constructed, notCache>>

CacheNext ==
    \/ ClearCache
    \/ \E c \in Callers :
          \/ GetStart(c)
          \/ ManagerStart(c)
          \/ ManagerCheck(c)
          \/ FastCheck(c)
          \/ FastRead(c)
          \/ LockAcquire(c)
          \/ LockedCheck(c)
          \/ DirCheck(c)
          \/ DownloadOk(c)
          \/ DownloadFail(c)
          \/ ConstructOk(c)
          \/ LeaveWith(c)
          \/ ConstructFail(c)
          \/ FinalRead(c)

SpecCache == CacheInit /\ [][CacheNext]_vars


(***************************************************************************)
(* SpecHandler: one POST /transcribe request                               *)
(* (api/endpoints/transcription.py, transcribe) and its upload files.      *)
(***************************************************************************)
\* durations in seconds librosa.get_duration reports for an upload
UploadDurations == {120, 400, 900}

\* file_type and requires_slicing of lines 52 and 60
file_type(duration) == IF duration > 300 THEN "long" ELSE "short"
requires_slicing(auto_slice, duration) == auto_slice /\ duration > 480

\* any(info["requires_slicing"] for info in infos)
AnyRequiresSlicing(infos) == \E i \in 1..Len(infos) : infos[i].requires_slicing

\* determine_processing_strategy without the branch for a single file
determine_strategy_by_any(infos, auto_slice) ==
    IF AnyRequiresSlicing(infos) /\ auto_slice THEN "mixed" ELSE "batch_only"

determine_processing_strategy(infos, auto_slice) ==
    IF Len(infos) = 1
    THEN IF auto_slice /\ infos[1].requires_slicing THEN "slice_only" ELSE "batch_only"
    ELSE IF AnyRequiresSlicing(infos) /\ auto_slice THEN "mixed" ELSE "batch_only"

HandlerInit ==
    /\ DispIdle
    /\ CacheIdle
    /\ SliceIdle
    /\ SlicerIdle
    /\ OptIdle
    /\ ApiIdle
    /\ MixedIdle
    /\ TranscribeIdle
    /\ CutIdle
    /\ config = DefaultConfig
    /\ hpc = "start"
    /\ hreq \in [model_supported : BOOLEAN, nfiles : 0..MaxFiles, auto_slice : BOOLEAN]
    /\ temp_files = {}
    /\ created = {}
    /\ file_infos = <<>>
    /\ hstrategy = None
    /\ hresponse = NoResponse

\* the upload the loop of line 44 is at
CurrentFile == Len(file_infos) + 1

\* lines 38-39 alone: the file list is validated, any model name is let through
ValidateFilesOnly ==
    /\ hpc = "start"
    /\ IF hreq.nfiles = 0
       THEN /\ hresponse' = error_response(400)
            /\ hpc' = "done"
       ELSE /\ hpc' = "upload"
            /\ UNCHANGED hresponse
    /\ UNCHANGED <<config, hreq, temp_files, created, file_infos, hstrategy, notHandler>>

\* lines 35-39: the model and the file list are validated
Validate ==
    /\ hpc = "start"
    /\ IF ~hreq.model_supported \/ hreq.nfiles = 0
       THEN /\ hresponse' = error_response(400)
            /\ hpc' = "done"
       ELSE /\ hpc' = "upload"
            /\ UNCHANGED hresponse
    /\ UNCHANGED <<config, hreq, temp_files, created, file_infos, hstrategy, notHandler>>

\* line 46: tempfile.NamedTemporaryFile(delete = False) creates the file
CreateTemp ==
    /\ hpc = "upload"
    /\ temp_files' = temp_files \cup {CurrentFile}
    /\ created' = created \cup {CurrentFile}
    /\ hpc' = "write"
    /\ UNCHANGED <<config, hreq, file_infos, hstrategy, hresponse, notHandler>>

\* lines 47-48: the upload is read and written to the temporary file
WriteUpload ==
    /\ hpc = "write"
    /\ hpc' = "analyse"
    /\ UNCHANGED <<config, hreq, temp_files, created, file_infos, hstrategy, hresponse,
                   notHandler>>

\* lines 47-48 raise (the client went away, the disk is full)
WriteUploadFails ==
    /\ hpc = "write"
    /\ hpc' = "except"
    /\ UNCHANGED <<config, hreq, temp_files, created, file_infos, hstrategy, hresponse,
                   notHandler>>

\* lines 51-61: the duration is analysed and the file joins file_infos
Analyse ==
    /\ hpc = "analyse"
    /\ \E duration \in UploadDurations, allowed \in BOOLEAN :
          file_infos' = Append(file_infos,
              [path |-> CurrentFile, content_type_allowed |-> allowed,
               duration |-> duration, type |-> file_type(duration),
               requires_slicing |-> requires_slicing(hreq.auto_slice, duration)])
    /\ hpc' = IF CurrentFile = hreq.nfiles THEN "load_model" ELSE "upload"
    /\ UNCHANGED <<config, hreq, temp_files, created, hstrategy, hresponse, notHandler>>

\* line 51: librosa.get_duration raises on an upload it cannot decode
AnalyseFails ==
    /\ hpc = "analyse"
    /\ hpc' = "except"
    /\ UNCHANGED <<config, hreq, temp_files, created, file_infos, hstrategy, hresponse,
                   notHandler>>

\* lines 64-68: get_model returns and the strategy is chosen
LoadModel ==
    /\ hpc = "load_model"
    /\ hstrategy' = determine_processing_strategy(file_infos, hreq.auto_slice)
    /\ hpc' = "process"
    /\ UNCHANGED <<config, hreq, temp_files, created, file_infos, hresponse, notHandler>>

\* line 65: get_model raises (download or construction failed)
LoadModelFails ==
    /\ hpc = "load_model"
    /\ hpc' = "except"
    /\ UNCHANGED <<config, hreq, temp_files, created, file_infos, hstrategy, hresponse,
                   notHandler>>

\* lines 70-77: the strategy returns its data
Process ==
    /\ hpc = "process"
    /\ hresponse' = success_response(hstrategy)
    /\ hpc' = "finally"
    /\ UNCHANGED <<config, hreq, temp_files, created, file_infos, hstrategy, notHandler>>

\* lines 70-75: the strategy raises
ProcessFails ==
    /\ hpc = "process"
    /\ hpc' = "except"
    /\ UNCHANGED <<config, hreq, temp_files, created, file_infos, hstrategy, hresponse,
                   notHandler>>

\* lines 79-81
Except ==
    /\ hpc = "except"
    /\ hresponse' = error_response(500)
    /\ hpc' = "finally"
    /\ UNCHANGED <<config, hreq, temp_files, created, file_infos, hstrategy, notHandler>>

\* the paths the finally block unlinks: those of file_infos
CleanupPaths(infos) == {infos[i].path : i \in 1..Len(infos)}

\* lines 83-90, and the response is returned
Finally ==
    /\ hpc = "finally"
    /\ temp_files' = temp_files \ CleanupPaths(file_infos)
    /\ hpc' = "done"
    /\ UNCHANGED <<config, hreq, created, file_infos, hstrategy, hresponse, notHandler>>

HandlerNext ==
    \/ Validate
    \/ CreateTemp
    \/ WriteUpload
    \/ WriteUploadFails
    \/ Analyse
    \/ AnalyseFails
    \/ LoadModel
    \/ LoadModelFails
    \/ Process
    \/ ProcessFails
    \/ Except
    \/ Finally

SpecHandler == HandlerInit /\ [][HandlerNext]_vars


(***************************************************************************)
(* SpecSlice: one run of process_slice_strategy                            *)
(* (core/processing_strategy.py) on a file that requires slicing, with the *)
(* slice and merged WAV files it leaves on disk.  A file is named by its   *)
(* path; durations and timestamps are whole seconds.                       *)
(***************************************************************************)
\* f"{base_name}_slice_{i:04d}.wav" in the directory made by mkdtemp
slice_path(i) == <<"slice", i, i>>
\* f"merged_{first_slice['index']}_{slice_batch[-1]['index']}.wav" in the same directory
merged_path(first, last) == <<"merged", first, last>>

\* the durations of the chunks slicer.slice(audio) returns: any list, the
\* empty one included
ChunkLists == UNION {[1..n -> 1..MaxChunkDur] : n \in 0..MaxSlices}

RECURSIVE SumSeq(_)
SumSeq(s) == IF s = <<>> THEN 0 ELSE Head(s) + SumSeq(Tail(s))

\* sum(s.get('duration', 0) for s in slice_batch)
RECURSIVE SumDuration(_)
SumDuration(infos) ==
    IF infos = <<>> THEN 0 ELSE Head(infos).duration + SumDuration(Tail(infos))

\* the list slice_audio_file builds: entry i (from 0) starts at the sum of
\* the durations of the chunks before it.  A slicer entry has no is_merged,
\* merged_count and original_indices keys: FALSE, 0 and <<>> stand for that.
\* slice_audio_file with total_duration never advanced (line 261 dropped)
slice_audio_file_unadvanced(chunks) ==
    [j \in 1..Len(chunks) |->
        [path |-> slice_path(j - 1),
         index |-> j - 1,
         duration |-> chunks[j],
         start_time |-> 0,
         is_merged |-> FALSE,
         merged_count |-> 0,
         original_indices |-> <<>>]]

slice_audio_file(chunks) ==
    [j \in 1..Len(chunks) |->
        [path |-> slice_path(j - 1),
         index |-> j - 1,
         duration |-> chunks[j],
         start_time |-> SumSeq(SubSeq(chunks, 1, j - 1)),
         is_merged |-> FALSE,
         merged_count |-> 0,
         original_indices |-> <<>>]]

\* what the file system does to one batch of _merge_slice_batch: the merged
\* file is written ("merged", with at least one member loaded), no member
\* could be loaded ("load_failed"), or sf.write raised ("write_failed")
MergeOutcomes == {"merged", "load_failed", "write_failed"}

\* merge_factor with the + 1 dropped
merge_factor_floor(n, max_slices) == n \div max_slices
merge_factor(n, max_slices) == n \div max_slices + 1

\* the merged entry named after the last slice of its batch
merge_slice_batch_last(slice_batch, outcome) ==
    LET first_slice == slice_batch[1]
        last_slice == slice_batch[Len(slice_batch)]
    IN  IF Len(slice_batch) = 1 THEN first_slice
        ELSE IF outcome = "merged"
        THEN [path |-> merged_path(first_slice.index, last_slice.index),
              index |-> last_slice.index,
              duration |-> SumDuration(slice_batch),
              start_time |-> last_slice.start_time,
              is_merged |-> TRUE,
              merged_count |-> Len(slice_batch),
              original_indices |-> [j \in 1..Len(slice_batch) |-> slice_batch[j].index]]
        ELSE first_slice

merge_slice_batch(slice_batch, outcome) ==
    LET first_slice == slice_batch[1]
        last_slice == slice_batch[Len(slice_batch)]
    IN  IF Len(slice_batch) = 1 THEN first_slice
        ELSE IF outcome = "merged"
        THEN [path |-> merged_path(first_slice.index, last_slice.index),
              index |-> first_slice.index,
              duration |-> SumDuration(slice_batch),
              start_time |-> first_slice.start_time,
              is_merged |-> TRUE,
              merged_count |-> Len(slice_batch),
              original_indices |-> [j \in 1..Len(slice_batch) |-> slice_batch[j].index]]
        ELSE first_slice

\* the number of batches of range(0, n, merge_factor); no batch is formed
\* when the list is within the cap
NBatches(n, max_slices) ==
    IF n <= max_slices THEN 0 ELSE CeilDiv(n, merge_factor(n, max_slices))

\* the b-th batch slice_infos[i:i + merge_factor], b from 1
Batch(infos, max_slices, b) ==
    LET k == merge_factor(Len(infos), max_slices)
    IN  SubSeq(infos, (b - 1) * k + 1, Min(b * k, Len(infos)))

\* outcomes[b] is what happens to the files of batch b
merge_large_slices(infos, max_slices, outcomes) ==
    IF Len(infos) <= max_slices THEN infos
    ELSE [b \in 1..NBatches(Len(infos), max_slices) |->
            LET batch == Batch(infos, max_slices, b)
            IN  IF Len(batch) = 1 THEN batch[1]
                ELSE merge_slice_batch(batch, outcomes[b])]

\* the files sf.write creates during merge_large_slices
MergedFiles(infos, max_slices, outcomes) ==
    IF Len(infos) <= max_slices THEN {}
    ELSE {merged_path(Batch(infos, max_slices, b)[1].index,
                      Batch(infos, max_slices, b)[Len(Batch(infos, max_slices, b))].index) :
            b \in {c \in 1..NBatches(Len(infos), max_slices) :
                      /\ Len(Batch(infos, max_slices, c)) > 1
                      /\ outcomes[c] = "merged"}}

\* the paths of a list of slice entries
Paths(infos) == {infos[j].path : j \in 1..Len(infos)}

\* a segment of the engine; a text is a sequence of characters
Segment(s, e, text) == [start |-> s, end |-> e, text |-> text]

\* what model.transcribe does on one slice file: it raises, or it returns
\* segments timed from the start of the slice, each with start <= end, in
\* any order, and the language it detected (probability in percent)
EngineOutputs ==
    { [raised |-> TRUE, segments |-> <<>>, language |-> None, language_probability |-> 0],
      [raised |-> FALSE, segments |-> <<>>, language |-> "en", language_probability |-> 30],
      [raised |-> FALSE, segments |-> <<Segment(0, 1, <<"a">>)>>,
       language |-> "en", language_probability |-> 90],
      [raised |-> FALSE,
       segments |-> <<Segment(1, 2, <<" ", "b">>), Segment(0, 1, <<"c", " ">>)>>,
       language |-> "zh", language_probability |-> 50] }

\* "".join(segment.text for segment in segments)
RECURSIVE JoinText(_)
JoinText(segments) ==
    IF segments = <<>> THEN <<>> ELSE Head(segments).text \o JoinText(Tail(segments))

\* the dict transcribe_audio returns.  error is TRUE when the dict has the
\* key "error" and no other; slice_index -1 and slice_start_time 0 stand
\* for keys not set yet.
transcribe_result(out) ==
    IF out.raised
    THEN [error |-> TRUE, transcript |-> <<>>, language |-> None,
          language_probability |-> 0, segments |-> <<>>,
          slice_index |-> -1, slice_start_time |-> 0]
    ELSE [error |-> FALSE, transcript |-> JoinText(out.segments),
          language |-> out.language,
          language_probability |-> out.language_probability,
          segments |-> out.segments,
          slice_index |-> -1, slice_start_time |-> 0]

process_slice(slice_info, out) ==
    [transcribe_result(out) EXCEPT !.slice_index = slice_info["index"]]

\* next(s for s in slice_infos if s["index"] == result.get("slice_index"))
find_slice(infos, slice_index) ==
    infos[CHOOSE j \in 1..Len(infos) :
            /\ infos[j].index = slice_index
            /\ \A i \in 1..(j - 1) : infos[i].index # slice_index]

\* the body of the as_completed loop: the segments are moved by the start
\* time of their slice, and the result is stamped with it
reanchor(result, infos) ==
    LET slice_info == find_slice(infos, result.slice_index)
    IN  [result EXCEPT
            !.segments = [j \in 1..Len(result.segments) |->
                            [result.segments[j] EXCEPT
                                !.start = @ + slice_info.start_time,
                                !.end = @ + slice_info.start_time]],
            !.slice_start_time = slice_info.start_time]

\* list.sort(key=...): the stable sort of s by keys, keys[i] the key of s[i]
StableSort(s, keys) ==
    LET pos(i) == 1 + Cardinality({j \in 1..Len(s) :
                        keys[j] < keys[i] \/ (keys[j] = keys[i] /\ j < i)})
    IN  [p \in 1..Len(s) |-> s[CHOOSE i \in 1..Len(s) : pos(i) = p]]

\* results left in the order as_completed yielded them
completion_order(rs) == rs
\* results.sort(key=lambda x: x.get("slice_start_time", 0))
sort_by_slice_start_time(rs) ==
    StableSort(rs, [i \in 1..Len(rs) |-> rs[i].slice_start_time])

\* all_segments left in the order of arrival
keep_order(segments) == segments
\* all_segments.sort(key=lambda x: x["start"])
sort_by_start(segments) ==
    StableSort(segments, [i \in 1..Len(segments) |-> segments[i].start])

\* str.strip() for texts whose only whitespace character is the space
RECURSIVE LStrip(_)
LStrip(text) ==
    IF text # <<>> /\ Head(text) = " " THEN LStrip(Tail(text)) ELSE text
RECURSIVE RStrip(_)
RStrip(text) ==
    IF text # <<>> /\ text[Len(text)] = " "
    THEN RStrip(SubSeq(text, 1, Len(text) - 1)) ELSE text
Strip(text) == RStrip(LStrip(text))

\* full_text after the loop of aggregate_results
RECURSIVE FullText(_)
FullText(rs) ==
    IF rs = <<>> THEN <<>>
    ELSE (IF Head(rs).error THEN <<>> ELSE Head(rs).transcript \o <<" ">>)
            \o FullText(Tail(rs))

\* all_segments after the loop of aggregate_results
RECURSIVE AllSegments(_)
AllSegments(rs) ==
    IF rs = <<>> THEN <<>>
    ELSE (IF Head(rs).error THEN <<>> ELSE Head(rs).segments) \o AllSegments(Tail(rs))

\* the first result without an error, which sets detected_language
FirstSuccess(rs) == {i \in 1..Len(rs) : ~rs[i].error /\ \A j \in 1..(i - 1) : rs[j].error}

aggregate_results(slice_results) ==
    LET all_segments == sort_by_start(AllSegments(slice_results))
        total_slices == Len(slice_results)
        failed_slices == CountErrors(slice_results)
        first == FirstSuccess(slice_results)
    IN  [transcript |-> Strip(FullText(slice_results)),
         language |-> IF first = {} THEN None
                      ELSE slice_results[CHOOSE i \in first : TRUE].language,
         language_probability |-> IF first = {} THEN 0
                      ELSE slice_results[CHOOSE i \in first : TRUE].language_probability,
         segments |-> all_segments,
         total_segments |-> Len(all_segments),
         total_slices |-> total_slices,
         successful_slices |-> total_slices - failed_slices,
         failed_slices |-> failed_slices,
         warning |-> failed_slices > 0]

\* final_result after update(): the entry of data["results"] on success
final_result(rs, infos) ==
    LET agg == aggregate_results(rs)
    IN  [error |-> None,
         transcript |-> agg.transcript,
         language |-> agg.language,
         language_probability |-> agg.language_probability,
         segments |-> agg.segments,
         total_segments |-> agg.total_segments,
         total_slices |-> agg.total_slices,
         successful_slices |-> agg.successful_slices,
         failed_slices |-> agg.failed_slices,
         warning |-> agg.warning,
         slice_count |-> Len(infos),
         processing_mode |-> "sliced_parallel"]

\* the entry of data["results"] the except branch returns
except_result ==
    [error |-> "slice processing failed",
     transcript |-> None,
     slice_count |-> 0,
     processing_mode |-> "sliced_parallel"]

\* process_slice_strategy has not returned yet
NoData == [error |-> None, transcript |-> None, slice_count |-> 0, processing_mode |-> None]

\* the state of a future: queued, running, done (result set) or collected
NoResult == transcribe_result([raised |-> TRUE])
Future(state, result) == [state |-> state, result |-> result]

SliceTasks == 1..Len(sfut)
SliceRunning == {t \in SliceTasks : sfut[t].state = "running"}

SliceInit ==
    /\ DispIdle
    /\ CacheIdle
    /\ HandlerIdle
    /\ SlicerIdle
    /\ OptIdle
    /\ ApiIdle
    /\ MixedIdle
    /\ TranscribeIdle
    /\ CutIdle
    /\ config \in {[DefaultConfig EXCEPT !.max_total_slices = m] : m \in 1..MaxCap}
    /\ spc = "start"
    /\ disk = {}
    /\ written = {}
    /\ slicer_out = <<>>
    /\ slice_infos = <<>>
    /\ smax \in MaxConcurrentChoices(config)
    /\ sworkers = 0
    /\ sfut = <<>>
    /\ sresults = <<>>
    /\ sdata = NoData

\* lines 92-96: slice_audio_file writes every chunk and returns its list
SliceAudio ==
    /\ spc = "start"
    /\ \E chunks \in ChunkLists :
        /\ slice_infos' = slice_audio_file(chunks)
        /\ slicer_out' = slice_audio_file(chunks)
        /\ disk' = disk \cup Paths(slice_audio_file(chunks))
        /\ written' = written \cup Paths(slice_audio_file(chunks))
    /\ spc' = "sliced"
    /\ UNCHANGED <<config, smax, sworkers, sfut, sresults, sdata, notSlice>>

\* lines 92-96 and 157-167: slice_audio_file raises after it wrote k chunks
\* (librosa.load or the slicer raises: k = 0; sf.write raises on chunk
\* k + 1); the caller's slice_infos is still [] and the except branch
\* builds the result
SliceAudioFails ==
    /\ spc = "start"
    /\ \E chunks \in ChunkLists :
        \E k \in 0..Max(0, Len(chunks) - 1) :
            /\ disk' = disk \cup Paths(SubSeq(slice_audio_file(chunks), 1, k))
            /\ written' = written \cup Paths(SubSeq(slice_audio_file(chunks), 1, k))
    /\ sdata' = except_result
    /\ spc' = "finally"
    /\ UNCHANGED <<config, smax, slicer_out, slice_infos, sworkers, sfut, sresults, notSlice>>

\* lines 99-101: more slices than max_total_slices are merged
Compact ==
    /\ spc = "sliced"
    /\ \E outcomes \in [1..NBatches(Len(slice_infos), config.max_total_slices) -> MergeOutcomes] :
        /\ slice_infos' = merge_large_slices(slice_infos, config.max_total_slices, outcomes)
        /\ disk' = disk \cup MergedFiles(slice_infos, config.max_total_slices, outcomes)
        /\ written' = written \cup MergedFiles(slice_infos, config.max_total_slices, outcomes)
    /\ spc' = "compacted"
    /\ UNCHANGED <<config, smax, slicer_out, sworkers, sfut, sresults, sdata, notSlice>>

\* max_concurrent after lines 104-112, for the request and some machine
PoolSizes ==
    {slice_concurrency(config, smax, Len(slice_infos), cores, load, duration, csl) :
        cores \in CoreChoices, load \in LoadSamples,
        duration \in LongDurations, csl \in BOOLEAN}

\* lines 104-121: the pool is made and every slice is submitted
Submit ==
    /\ spc = "compacted"
    /\ \E w \in PoolSizes :
        /\ w > 0
        /\ sworkers' = w
    /\ sfut' = [t \in 1..Len(slice_infos) |-> Future("queued", NoResult)]
    /\ spc' = "dispatch"
    /\ UNCHANGED <<config, smax, disk, written, slicer_out, slice_infos, sresults, sdata, notSlice>>

\* lines 117 and 157-167: ThreadPoolExecutor(max_workers=0) raises ValueError
SubmitFails ==
    /\ spc = "compacted"
    /\ \E w \in PoolSizes : w <= 0
    /\ sdata' = except_result
    /\ spc' = "finally"
    /\ UNCHANGED <<config, smax, disk, written, slicer_out, slice_infos, sworkers, sfut, sresults, notSlice>>

\* a free worker of the pool takes the oldest queued task
SliceWorkerStart(t) ==
    /\ spc = "dispatch"
    /\ sfut[t].state = "queued"
    /\ \A u \in 1..(t - 1) : sfut[u].state # "queued"
    /\ Cardinality(SliceRunning) < sworkers
    /\ sfut' = [sfut EXCEPT ![t].state = "running"]
    /\ UNCHANGED <<config, smax, spc, disk, written, slicer_out, slice_infos, sworkers, sresults, sdata, notSlice>>

\* process_slice returns: the engine transcribed the slice or raised, and
\* transcribe_audio took and gave back its permit
SliceWorkerDone(t) ==
    /\ spc = "dispatch"
    /\ sfut[t].state = "running"
    /\ \E out \in EngineOutputs :
        sfut' = [sfut EXCEPT ![t] = Future("done", process_slice(slice_infos[t], out))]
    /\ UNCHANGED <<config, smax, spc, disk, written, slicer_out, slice_infos, sworkers, sresults, sdata, notSlice>>

\* lines 123-133: as_completed yields a finished future
SliceCollect(t) ==
    /\ spc = "dispatch"
    /\ sfut[t].state = "done"
    /\ sresults' = Append(sresults, reanchor(sfut[t].result, slice_infos))
    /\ sfut' = [sfut EXCEPT ![t] = Future("collected", NoResult)]
    /\ UNCHANGED <<config, smax, spc, disk, written, slicer_out, slice_infos, sworkers, sdata, notSlice>>

\* the as_completed loop ends at the first delivered future
first_delivered == \E t \in SliceTasks : sfut[t].state = "collected"
\* the as_completed loop ends when every future has been yielded
all_delivered == \A t \in SliceTasks : sfut[t].state = "collected"

\* lines 142-155: the results are sorted and aggregated
Aggregate ==
    /\ spc = "dispatch"
    /\ all_delivered
    /\ sdata' = final_result(sort_by_slice_start_time(sresults), slice_infos)
    /\ spc' = "finally"
    /\ UNCHANGED <<config, smax, disk, written, slicer_out, slice_infos, sworkers, sfut, sresults, notSlice>>

\* cleanup_slices (core/audio_slicer.py): every listed path that exists is unlinked
cleanup_slices(infos) == disk \ Paths(infos)

\* lines 168-170
SliceFinally ==
    /\ spc = "finally"
    /\ disk' = IF slice_infos # <<>> THEN cleanup_slices(slice_infos) ELSE disk
    /\ spc' = "done"
    /\ UNCHANGED <<config, smax, written, slicer_out, slice_infos, sworkers, sfut, sresults, sdata, notSlice>>

SliceNext ==
    \/ SliceAudio
    \/ SliceAudioFails
    \/ Compact
    \/ Submit
    \/ SubmitFails
    \/ \E t \in SliceTasks : SliceWorkerStart(t)
    \/ \E t \in SliceTasks : SliceWorkerDone(t)
    \/ \E t \in SliceTasks : SliceCollect(t)
    \/ Aggregate
    \/ SliceFinally

SpecSlice == SliceInit /\ [][SliceNext]_vars


(***************************************************************************)
(* SpecSlicer: AudioSlicer.slice cuts one file at its silent ranges,       *)
(* slice_audio_file saves the chunks with their start_time,                *)
(* merge_large_slices compacts the list, and the as_completed loop of      *)
(* process_slice_strategy re-anchors the segments of each slice.           *)
(* Positions are in frames of hop_size samples and the sample rate is one  *)
(* frame per second, so that a frame lasts one second.                     *)
(***************************************************************************)
\* rms_list has one frame more than the waveform has whole frames
waveform_frames(total_frames) == total_frames - 1

\* sil_tags as the loop of AudioSlicer.slice leaves it: ranges (l, r) of
\* frames in increasing order with a clip between two ranges; (0, pos) for
\* leading silence, (pos, pos) for a cut inside a short silence, and a last
\* range (pos, total_frames + 1) for trailing silence
SilTagLists(total_frames) ==
    {tags \in UNION {[1..n -> (0..(total_frames - 1)) \X (0..(total_frames + 1))] :
                        n \in 0..MaxTags} :
        /\ \A i \in 1..Len(tags) :
            /\ tags[i][1] <= tags[i][2]
            /\ tags[i][2] # total_frames
            /\ tags[i][2] = total_frames + 1 => i = Len(tags)
        /\ \A i \in 1..(Len(tags) - 1) : tags[i][2] < tags[i + 1][1]}

\* _apply_slice without the bound len(waveform) on the end of the chunk
apply_slice_unbounded(total_frames, begin, end) == [begin |-> begin, end |-> end]

\* _apply_slice: the frames [begin, min(len(waveform), end)) of the waveform
apply_slice(total_frames, begin, end) ==
    [begin |-> begin, end |-> Min(waveform_frames(total_frames), end)]

\* lines 172-183: the chunks between the silent ranges
slicer_slice(tags, total_frames) ==
    IF Len(tags) = 0
    THEN <<apply_slice(total_frames, 0, total_frames)>>
    ELSE (IF tags[1][1] > 0
          THEN <<apply_slice(total_frames, 0, tags[1][1])>> ELSE <<>>)
         \o [i \in 1..(Len(tags) - 1) |->
                apply_slice(total_frames, tags[i][2], tags[i + 1][1])]
         \o (IF tags[Len(tags)][2] < total_frames
             THEN <<apply_slice(total_frames, tags[Len(tags)][2], total_frames)>>
             ELSE <<>>)

\* duration = len(chunk) / sr of every chunk
chunk_durations(spans) == [j \in 1..Len(spans) |-> spans[j].end - spans[j].begin]

\* a ThreadPoolExecutor and the futures submitted to it
NoPool == [workers |-> 0, st |-> <<>>]
Pool(workers, ntasks) == [workers |-> workers, st |-> [t \in 1..ntasks |-> "queued"]]
PoolRunning(pool) == Cardinality({t \in DOMAIN pool.st : pool.st[t] = "running"})
\* as_completed has yielded every future and its result was handled
PoolCollected(pool) == \A t \in DOMAIN pool.st : pool.st[t] = "collected"

\* what the engine reports for a slice of d seconds: one segment inside [0, d]
SliceSegments(d) == {Segment(0, d, <<"a">>), Segment(0, 0, <<"a">>), Segment(d, d, <<"a">>)}

SlicerInit ==
    /\ DispIdle
    /\ CacheIdle
    /\ HandlerIdle
    /\ SliceIdle
    /\ OptIdle
    /\ ApiIdle
    /\ MixedIdle
    /\ TranscribeIdle
    /\ CutIdle
    /\ config \in {[DefaultConfig EXCEPT !.max_total_slices = m] : m \in 1..MaxCap}
    /\ kpc = "start"
    /\ kframes \in 2..(MaxFrames + 1)
    /\ ktags \in SilTagLists(kframes)
    /\ kspans = <<>>
    /\ kinfos = <<>>
    /\ ksegs = <<>>
    /\ kpool = [workers |-> 0, st |-> <<>>, out |-> <<>>]

\* slicer.slice(audio), line 238 of slice_audio_file
SlicerSlice ==
    /\ kpc = "start"
    /\ kspans' = slicer_slice(ktags, kframes)
    /\ kpc' = "sliced"
    /\ UNCHANGED <<config, ktags, kframes, kinfos, ksegs, kpool, notSlicer>>

\* lines 240-264 of slice_audio_file
SlicerSave ==
    /\ kpc = "sliced"
    /\ kinfos' = slice_audio_file(chunk_durations(kspans))
    /\ kpc' = "saved"
    /\ UNCHANGED <<config, ktags, kframes, kspans, ksegs, kpool, notSlicer>>

\* lines 99-101 of process_slice_strategy: more slices than
\* max_total_slices are merged
SlicerCompact ==
    /\ kpc = "saved"
    /\ \E outcomes \in [1..NBatches(Len(kinfos), config.max_total_slices) -> MergeOutcomes] :
          kinfos' = merge_large_slices(kinfos, config.max_total_slices, outcomes)
    /\ kpc' = "compacted"
    /\ UNCHANGED <<config, ktags, kframes, kspans, ksegs, kpool, notSlicer>>

\* lines 117-121: the pool is made and process_slice is submitted for every
\* slice, in list order; a pool of more workers than slices runs as one of
\* as many workers as slices
SlicerSubmit ==
    /\ kpc = "compacted"
    /\ Len(kinfos) > 0
    /\ \E workers \in 1..Len(kinfos) :
          kpool' = [workers |-> workers,
                    st |-> [t \in 1..Len(kinfos) |-> "queued"],
                    out |-> [t \in 1..Len(kinfos) |-> <<0, 0>>]]
    /\ kpc' = "pool"
    /\ UNCHANGED <<config, ktags, kframes, kspans, kinfos, ksegs, notSlicer>>

\* an idle worker of the pool takes the oldest queued future
SlicerStart ==
    /\ kpc = "pool"
    /\ PoolRunning(kpool) < kpool.workers
    /\ \E t \in DOMAIN kpool.st :
          /\ kpool.st[t] = "queued"
          /\ \A u \in 1..(t - 1) : kpool.st[u] # "queued"
          /\ kpool' = [kpool EXCEPT !.st[t] = "running"]
    /\ UNCHANGED <<config, kpc, ktags, kframes, kspans, kinfos, ksegs, notSlicer>>

\* process_slice returns in its worker: the engine has transcribed the slice
SlicerTranscribe ==
    /\ kpc = "pool"
    /\ \E t \in DOMAIN kpool.st :
          /\ kpool.st[t] = "running"
          /\ \E seg \in SliceSegments(kinfos[t].duration) :
                kpool' = [kpool EXCEPT !.st[t] = "finished",
                                       !.out[t] = <<seg.start, seg.end>>]
    /\ UNCHANGED <<config, kpc, ktags, kframes, kspans, kinfos, ksegs, notSlicer>>

\* lines 123-133: as_completed yields a finished future; the loop moves its
\* segments by the start_time of the slice and appends the result
SlicerAnchor ==
    /\ kpc = "pool"
    /\ \E t \in DOMAIN kpool.st :
          /\ kpool.st[t] = "finished"
          /\ LET out == [raised |-> FALSE,
                         segments |-> <<Segment(kpool.out[t][1], kpool.out[t][2], <<"a">>)>>,
                         language |-> "en", language_probability |-> 90]
                 result == reanchor(process_slice(kinfos[t], out), kinfos)
             IN  ksegs' = Append(ksegs, [slice_index |-> result.slice_index,
                                         start |-> result.segments[1].start,
                                         end |-> result.segments[1].end])
          /\ kpool' = [kpool EXCEPT !.st[t] = "collected"]
    /\ UNCHANGED <<config, kpc, ktags, kframes, kspans, kinfos, notSlicer>>

\* as_completed is exhausted and the with block is left; the slicer gave no
\* slice, or every result has been appended
SlicerDone ==
    /\ \/ kpc = "compacted" /\ Len(kinfos) = 0
       \/ kpc = "pool" /\ PoolCollected(kpool)
    /\ kpc' = "done"
    /\ UNCHANGED <<config, ktags, kframes, kspans, kinfos, ksegs, kpool, notSlicer>>

SlicerNext ==
    \/ SlicerSlice
    \/ SlicerSave
    \/ SlicerCompact
    \/ SlicerSubmit
    \/ SlicerStart
    \/ SlicerTranscribe
    \/ SlicerAnchor
    \/ SlicerDone

SpecSlicer == SlicerInit /\ [][SlicerNext]_vars


(***************************************************************************)
(* SpecOptimizer: one call of calculate_optimal_concurrency                *)
(* (core/slice_tools/concurrency_optimizer.py) on a machine and a          *)
(* configuration whose limits are ordered.                                 *)
(***************************************************************************)
\* os.cpu_count() or 4: machines on both sides of every branch of _calculate_cpu_based
OptCores == {1, 2, 4, 5, 8, 12, 16, 24, 32, 48, 64}
\* slice counts on both sides of every branch of _calculate_slice_based
OptSlices == {0, 1, 5, 6, 20, 21, 50, 51, 100, 101, 400}
\* audio durations in seconds on both sides of the 30 and 60 minute marks
OptDurations == {0, 1800, 1801, 3600, 3601}
\* MIN_CONCURRENT and MAX_CONCURRENT_LIMIT of the environment, ordered
OptLimits == {<<1, 1>>, <<1, 3>>, <<2, 3>>, <<2, 8>>, <<4, 4>>, <<1, 32>>, <<3, 64>>}
\* psutil samples on both sides of the marks of _calculate_load_based, or a
\* sampling failure
OptMarks == {0, 60, 61, 79, 80, 81, 100}
OptLoads ==
    [ok : {TRUE}, cpu : OptMarks, mem : OptMarks] \cup {[ok |-> FALSE, cpu |-> 0, mem |-> 0]}
\* every whole cpu_percent and memory percent
MaxPercent == 100
AllLoads == [ok : {TRUE}, cpu : 0..MaxPercent, mem : 0..MaxPercent]
\* the calls considered: every combination of the inputs around the marks,
\* and every whole load sample for a short file without slices under the
\* limits 2 and 8
OptInputs ==
    [cores : OptCores, load : OptLoads, total_slices : OptSlices,
     audio_duration : OptDurations, consider_system_load : BOOLEAN]
    \cup [cores : OptCores, load : AllLoads, total_slices : {0},
          audio_duration : {0}, consider_system_load : {TRUE}]

OptInit ==
    /\ DispIdle
    /\ CacheIdle
    /\ HandlerIdle
    /\ SliceIdle
    /\ SlicerIdle
    /\ ApiIdle
    /\ MixedIdle
    /\ TranscribeIdle
    /\ CutIdle
    /\ config \in {[DefaultConfig EXCEPT !.min_concurrent_limit = l[1],
                                         !.max_concurrent_limit = l[2]] : l \in OptLimits}
    /\ opc = "call"
    /\ oin \in OptInputs
    /\ (oin.load \notin OptLoads) =>
            (config.min_concurrent_limit = 2 /\ config.max_concurrent_limit = 8)
    /\ oout = 0

\* calculate_optimal_concurrency returns
Optimize ==
    /\ opc = "call"
    /\ oout' = calculate_optimal_concurrency(config, oin.cores, oin.load, oin.total_slices,
                                             oin.audio_duration, oin.consider_system_load)
    /\ opc' = "returned"
    /\ UNCHANGED <<config, oin, notOpt>>

OptNext == Optimize

SpecOptimizer == OptInit /\ [][OptNext]_vars


(***************************************************************************)
(* SpecApi: a client of POST /model-cache/clear and GET                    *)
(* /model-cache/status (api/endpoints/system.py) next to one thread that   *)
(* calls get_model.                                                        *)
(***************************************************************************)
\* get_cached_model_names(): list(loaded_models.keys())
get_cached_model_names == DOMAIN loaded_models

\* POST /model-cache/clear.  system.py imports only get_cached_model_names
\* from core.model_manager, so the name clear_model_cache in the body of
\* the endpoint is the endpoint itself: the call makes a coroutine object
\* that is never awaited, nothing touches loaded_models, and the message
\* is returned.
PostClear ==
    /\ api_pc = "idle"
    /\ api_pc' = "cleared"
    /\ UNCHANGED <<config, cache_size, cacheVars, notApi>>

\* GET /model-cache/status
GetStatus ==
    /\ api_pc = "cleared"
    /\ cache_size' = Cardinality(get_cached_model_names)
    /\ api_pc' = "idle"
    /\ UNCHANGED <<config, cacheVars, notApi>>

\* the threads of the executor that load models for the handler
Loaders == 1..2

ApiInit == CacheInit

ApiLoad ==
    \E c \in Loaders :
        \/ GetStart(c)
        \/ FastCheck(c)
        \/ FastRead(c)
        \/ LockAcquire(c)
        \/ LockedCheck(c)
        \/ DirCheck(c)
        \/ DownloadOk(c)
        \/ DownloadFail(c)
        \/ ConstructOk(c)
        \/ LeaveWith(c)
        \/ ConstructFail(c)
        \/ FinalRead(c)

ApiNext ==
    \/ PostClear
    \/ GetStatus
    \/ ApiLoad

SpecApi == ApiInit /\ [][ApiNext]_vars


(***************************************************************************)
(* SpecMixed: process_mixed_strategy on one request with several files,    *)
(* at least one of which requires slicing.  Phase 0 is the batch over      *)
(* short_audio, phase k the slice strategy on the k-th file of long_audio. *)
(***************************************************************************)
\* the files of a request of the mixed strategy; a file is named by its index
MixedFiles == [content_type_allowed : BOOLEAN, requires_slicing : BOOLEAN]
MixedFileLists ==
    {fs \in UNION {[1..n -> MixedFiles] : n \in 2..MaxMixFiles} :
        determine_processing_strategy(fs, TRUE) = "mixed"}

\* [info for info in file_infos if (not) info["requires_slicing"]], by index
RECURSIVE AudioFrom(_, _, _)
AudioFrom(infos, i, long) ==
    IF i > Len(infos) THEN <<>>
    ELSE (IF infos[i].requires_slicing = long THEN <<i>> ELSE <<>>)
         \o AudioFrom(infos, i + 1, long)

short_audio(infos) == AudioFrom(infos, 1, FALSE)
long_audio(infos) == AudioFrom(infos, 1, TRUE)

\* valid_files of the process_batch_strategy call on short_audio
RECURSIVE ValidShortFrom(_, _, _)
ValidShortFrom(infos, short, k) ==
    IF k > Len(short) THEN <<>>
    ELSE (IF infos[short[k]].content_type_allowed THEN <<short[k]>> ELSE <<>>)
         \o ValidShortFrom(infos, short, k + 1)

valid_short(infos) == ValidShortFrom(infos, short_audio(infos), 1)

\* the entries of results: a per-file result of the batch (process_file
\* sets no processing_mode), final_result of a sliced file, or the error
\* entry of process_slice_strategy's except branch
BatchEntry(file, failed) == [file |-> file, mode |-> "none", error |-> failed]
SlicedEntry(file, failed) == [file |-> file, mode |-> "sliced_parallel", error |-> failed]

\* the files of the request on disk: the temp file the handler wrote for
\* upload i, and the file slice_audio_file wrote for slice t of phase p
UploadFile(i) == <<"upload", i, 0>>
SliceFile(p, t) == <<"slice", p, t>>
\* the file a task of the pool of phase p opens: process_file its upload,
\* process_slice its slice_info["path"]
TaskFile(infos, p, t) ==
    IF p = 0 THEN UploadFile(valid_short(infos)[t]) ELSE SliceFile(p, t)

NoMixedData == [strategy |-> "none", total_files |-> 0, processed_files |-> 0]

MixedInit ==
    /\ DispIdle
    /\ CacheIdle
    /\ HandlerIdle
    /\ SliceIdle
    /\ SlicerIdle
    /\ OptIdle
    /\ ApiIdle
    /\ TranscribeIdle
    /\ CutIdle
    /\ config = [DefaultConfig EXCEPT !.max_concurrent_limit = MaxLimit,
                                      !.default_max_concurrent = MaxDefault]
    /\ mpc = "split"
    /\ mfiles \in MixedFileLists
    /\ mmax \in MaxConcurrentChoices(config)
    /\ mphase = 0
    /\ mtask = [p \in 1..(1 + Len(long_audio(mfiles))) |-> NoPool]
    /\ msliced = {}
    /\ mresults = <<>>
    /\ mdata = NoMixedData
    /\ mdisk = {UploadFile(i) : i \in 1..Len(mfiles)}

\* lines 176-183, and process_batch_strategy up to the submits of line 64
MixedBatchBegin ==
    /\ mpc = "split"
    /\ LET valid == valid_short(mfiles) IN
       IF valid = <<>>
       THEN \* no short file, or process_batch_strategy returns results: []
            /\ mpc' = "next_long"
            /\ UNCHANGED mtask
       ELSE /\ mtask' = [mtask EXCEPT ![1] =
                    Pool(effective_concurrent(config, mmax, Len(valid)), Len(valid))]
            /\ mpc' = "batch_pool"
    /\ UNCHANGED <<config, mfiles, mmax, mphase, msliced, mresults, mdata, mdisk, notMixed>>

\* a thread of a pool takes a queued task: process_file or process_slice begins
MixedTaskStart ==
    /\ \E p \in DOMAIN mtask : \E t \in DOMAIN mtask[p].st :
          /\ mtask[p].st[t] = "queued"
          /\ PoolRunning(mtask[p]) < mtask[p].workers
          /\ mtask' = [mtask EXCEPT ![p].st[t] = "running"]
    /\ UNCHANGED <<config, mpc, mfiles, mmax, mphase, msliced, mresults, mdata, mdisk, notMixed>>

\* transcribe_audio returns, with a transcript or with {"error": ...}
MixedTaskDone ==
    /\ \E p \in DOMAIN mtask : \E t \in DOMAIN mtask[p].st :
       \E outcome \in {"ok", "err"} :
          /\ mtask[p].st[t] = "running"
          /\ mtask' = [mtask EXCEPT ![p].st[t] = outcome]
    /\ UNCHANGED <<config, mpc, mfiles, mmax, mphase, msliced, mresults, mdata, mdisk, notMixed>>

\* one turn of `for future in as_completed(futures)` of the running strategy
MixedCollect ==
    /\ mpc \in {"batch_pool", "slice_pool"}
    /\ \E t \in DOMAIN mtask[mphase + 1].st :
          /\ mtask[mphase + 1].st[t] \in {"ok", "err"}
          /\ mtask' = [mtask EXCEPT ![mphase + 1].st[t] = "collected"]
          /\ mresults' = IF mpc = "batch_pool"
                         THEN Append(mresults,
                                  BatchEntry(valid_short(mfiles)[t],
                                             mtask[mphase + 1].st[t] = "err"))
                         ELSE mresults
    /\ UNCHANGED <<config, mpc, mfiles, mmax, mphase, msliced, mdata, mdisk, notMixed>>

\* the batch leaves its pool while futures are still queued or running
MixedBatchReturnEarly ==
    /\ mpc = "batch_pool"
    /\ mpc' = "next_long"
    /\ UNCHANGED <<config, mfiles, mmax, mphase, mtask, msliced, mresults, mdata, mdisk, notMixed>>

\* process_batch_strategy lines 65-84: as_completed is exhausted, the with
\* block has shut the pool down, results were extended (line 183)
MixedBatchReturn ==
    /\ mpc = "batch_pool"
    /\ PoolCollected(mtask[1])
    /\ mpc' = "next_long"
    /\ UNCHANGED <<config, mfiles, mmax, mphase, mtask, msliced, mresults, mdata, mdisk, notMixed>>

\* `for long_file in long_audio` takes the next file; process_slice_strategy
\* slices it (lines 91-100), sizes the pool (102-112) and submits every slice
MixedSliceBegin ==
    /\ mpc = "next_long"
    /\ mphase < Len(long_audio(mfiles))
    /\ mphase' = mphase + 1
    /\ msliced' = msliced \cup {mphase + 1}
    /\ \E nslices \in 0..MaxMixSlices :
       \E cores \in CoreChoices, load \in LoadSamples, duration \in LongDurations :
       \E consider_system_load \in BOOLEAN :
          LET workers == slice_concurrency(config, mmax, nslices, cores, load,
                                           duration, consider_system_load) IN
          IF workers <= 0
          THEN \* ThreadPoolExecutor(max_workers = 0) raises ValueError
               /\ mresults' = Append(mresults,
                                  SlicedEntry(long_audio(mfiles)[mphase + 1], TRUE))
               /\ mpc' = "next_long"
               /\ UNCHANGED <<mtask, mdisk>>
          ELSE /\ mtask' = [mtask EXCEPT ![mphase + 2] = Pool(workers, nslices)]
               /\ mpc' = "slice_pool"
               /\ mdisk' = mdisk \cup {SliceFile(mphase + 1, t) : t \in 1..nslices}
               /\ UNCHANGED mresults
    /\ UNCHANGED <<config, mfiles, mmax, mdata, notMixed>>

\* slice_audio_file raises after it wrote k slice files (sf.write raises on
\* slice k + 1; k = 0 when librosa.load or the slicer raises): slice_infos
\* is still [] (the assignment of line 92 did not happen), so the finally
\* clause of lines 168-170 skips cleanup_slices and the k files stay; the
\* except branch returns its error entry
MixedSliceFails ==
    /\ mpc = "next_long"
    /\ mphase < Len(long_audio(mfiles))
    /\ mphase' = mphase + 1
    /\ msliced' = msliced \cup {mphase + 1}
    /\ mresults' = Append(mresults, SlicedEntry(long_audio(mfiles)[mphase + 1], TRUE))
    /\ \E k \in 0..(MaxMixSlices - 1) :
          mdisk' = mdisk \cup {SliceFile(mphase + 1, t) : t \in 1..k}
    /\ UNCHANGED <<config, mpc, mfiles, mmax, mtask, mdata, notMixed>>

\* cleanup_slices runs and the strategy returns while futures of its pool
\* are still queued or running
MixedSliceReturnEarly ==
    /\ mpc = "slice_pool"
    /\ mresults' = Append(mresults, SlicedEntry(long_audio(mfiles)[mphase], FALSE))
    /\ mdisk' = mdisk \ {SliceFile(mphase, t) : t \in DOMAIN mtask[mphase + 1].st}
    /\ mpc' = "next_long"
    /\ UNCHANGED <<config, mfiles, mmax, mphase, mtask, msliced, mdata, notMixed>>

\* process_slice_strategy lines 139-170: as_completed is exhausted, the pool
\* is shut down, final_result is returned and appended (line 190); on the
\* way out the finally clause unlinks the slice files (cleanup_slices)
MixedSliceReturn ==
    /\ mpc = "slice_pool"
    /\ PoolCollected(mtask[mphase + 1])
    /\ mresults' = Append(mresults, SlicedEntry(long_audio(mfiles)[mphase], FALSE))
    /\ mdisk' = mdisk \ {SliceFile(mphase, t) : t \in DOMAIN mtask[mphase + 1].st}
    /\ mpc' = "next_long"
    /\ UNCHANGED <<config, mfiles, mmax, mphase, mtask, msliced, mdata, notMixed>>

\* lines 192-198: long_audio is exhausted
MixedReturn ==
    /\ mpc = "next_long"
    /\ mphase = Len(long_audio(mfiles))
    /\ mdata' = [strategy |-> "mixed_optimized", total_files |-> Len(mfiles),
                 processed_files |-> Len(mresults)]
    /\ mpc' = "done"
    /\ UNCHANGED <<config, mfiles, mmax, mphase, mtask, msliced, mresults, mdisk, notMixed>>

\* the finally clause of the handler (api/endpoints/transcription.py), after
\* the awaited strategy has returned: every upload temp file is unlinked
MixedHandlerFinally ==
    /\ mpc = "done"
    /\ mdisk' = mdisk \ {UploadFile(i) : i \in 1..Len(mfiles)}
    /\ mpc' = "closed"
    /\ UNCHANGED <<config, mfiles, mmax, mphase, mtask, msliced, mresults, mdata, notMixed>>

MixedNext ==
    \/ MixedBatchBegin
    \/ MixedTaskStart
    \/ MixedTaskDone
    \/ MixedCollect
    \/ MixedBatchReturn
    \/ MixedSliceBegin
    \/ MixedSliceFails
    \/ MixedSliceReturn
    \/ MixedReturn
    \/ MixedHandlerFinally

SpecMixed == MixedInit /\ [][MixedNext]_vars


(***************************************************************************)
(* SpecTranscribe: calls of transcribe_audio (core/transcriber.py) by the  *)
(* threads of the pools, one step per statement that can block or raise.   *)
(***************************************************************************)
TranscribeCalls == 1..NCalls

\* what model.transcribe hands back when it does not raise: the lazy
\* segment stream and info
EngineStreams == {out \in EngineOutputs : ~out.raised}

\* the call has not returned: no dict yet
NoDict == [error |-> FALSE, transcript |-> <<>>, language |-> None,
           language_probability |-> 0, segments |-> <<>>,
           slice_index |-> -1, slice_start_time |-> 0]
\* the engine has not been called, or it raised
NoStream == [raised |-> TRUE, segments |-> <<>>, language |-> None,
             language_probability |-> 0]

\* the dict of the except branch (line 34)
error_dict == transcribe_result(NoStream)

\* raised_at: the statement of the try block the exception e of line 32 came from
IdleCall == [pc |-> "idle", stream |-> NoStream, raised_at |-> "none", ret |-> NoDict]

TranscribeInit ==
    /\ DispIdle
    /\ CacheIdle
    /\ HandlerIdle
    /\ SliceIdle
    /\ SlicerIdle
    /\ OptIdle
    /\ ApiIdle
    /\ MixedIdle
    /\ CutIdle
    /\ config \in {[DefaultConfig EXCEPT !.max_concurrent_limit = l] : l \in 1..MaxLimit}
    /\ tcall = [c \in TranscribeCalls |-> IdleCall]
    /\ tpermits = MAX_CONCURRENT(config)

\* process_file or process_slice calls transcribe_audio
TCall(c) ==
    /\ tcall[c].pc = "idle"
    /\ tcall' = [tcall EXCEPT ![c].pc = "acquire"]
    /\ UNCHANGED <<config, tpermits, notTranscribe>>

\* line 11: transcribe_semaphore.acquire()
TAcquire(c) ==
    /\ tcall[c].pc = "acquire"
    /\ SemCanAcquire(tpermits)
    /\ tpermits' = SemAcquire(tpermits)
    /\ tcall' = [tcall EXCEPT ![c].pc = "transcribe"]
    /\ UNCHANGED <<config, notTranscribe>>

\* line 19: model.transcribe returns the segment stream and info
TEngineReturns(c) ==
    /\ tcall[c].pc = "transcribe"
    /\ \E out \in EngineStreams :
          tcall' = [tcall EXCEPT ![c].pc = "list", ![c].stream = out]
    /\ UNCHANGED <<config, tpermits, notTranscribe>>

\* line 19 raises (unreadable file, out of memory): lines 32-34
TEngineRaises(c) ==
    /\ tcall[c].pc = "transcribe"
    /\ tcall' = [tcall EXCEPT ![c].pc = "finally", ![c].raised_at = "transcribe",
                              ![c].ret = error_dict]
    /\ UNCHANGED <<config, tpermits, notTranscribe>>

\* lines 20-31: the stream is materialised and the dict is built
TMaterialise(c) ==
    /\ tcall[c].pc = "list"
    /\ tcall' = [tcall EXCEPT ![c].pc = "finally",
                              ![c].ret = transcribe_result(tcall[c].stream)]
    /\ UNCHANGED <<config, tpermits, notTranscribe>>

\* list(segments) outside the try block: the decoding error leaves
\* transcribe_audio as an exception, the permit is given back on the way
TMaterialiseRaises(c) ==
    /\ tcall[c].pc = "list"
    /\ tpermits' = SemRelease(tpermits)
    /\ tcall' = [tcall EXCEPT ![c].pc = "raised", ![c].stream = NoStream,
                              ![c].raised_at = "list"]
    /\ UNCHANGED <<config, notTranscribe>>

\* line 20 raises while the engine decodes: the segments read so far are
\* dropped, lines 32-34
TMaterialiseFails(c) ==
    /\ tcall[c].pc = "list"
    /\ tcall' = [tcall EXCEPT ![c].pc = "finally", ![c].stream = NoStream,
                              ![c].raised_at = "list", ![c].ret = error_dict]
    /\ UNCHANGED <<config, tpermits, notTranscribe>>

\* lines 35-37: the permit is released and the dict is returned
TFinally(c) ==
    /\ tcall[c].pc = "finally"
    /\ tpermits' = SemRelease(tpermits)
    /\ tcall' = [tcall EXCEPT ![c].pc = "returned"]
    /\ UNCHANGED <<config, notTranscribe>>

TranscribeNext ==
    \E c \in TranscribeCalls :
        \/ TCall(c)
        \/ TAcquire(c)
        \/ TEngineReturns(c)
        \/ TEngineRaises(c)
        \/ TMaterialise(c)
        \/ TMaterialiseFails(c)
        \/ TFinally(c)

SpecTranscribe == TranscribeInit /\ [][TranscribeNext]_vars


(***************************************************************************)
(* SpecCut: AudioSlicer.__init__ turns its arguments in milliseconds into  *)
(* frame counts, and the loop of AudioSlicer.slice walks rms_list frame by *)
(* frame and records the silent ranges to remove (core/audio_slicer.py).   *)
(* A level of rms_list below SilenceLevel is a frame below the threshold.  *)
(***************************************************************************)
\* round(p / q) of Python for p >= 0, q > 0: to the nearest, halves to even
RoundDiv(p, q) ==
    LET f == p \div q
        r == p % q
    IN  IF 2 * r < q THEN f
        ELSE IF 2 * r > q THEN f + 1
        ELSE IF f % 2 = 0 THEN f ELSE f + 1

\* the attributes AudioSlicer.__init__ computes (lines 82-88); the
\* arguments are kept under their names with _ms
AudioSlicer_init(sr, min_length, min_interval, hop_size, max_sil_kept) ==
    LET hop == RoundDiv(sr * hop_size, 1000)
    IN  [sr |-> sr,
         min_length_ms |-> min_length,
         min_interval_ms |-> min_interval,
         hop_size_ms |-> hop_size,
         max_sil_kept_ms |-> max_sil_kept,
         hop_size |-> hop,
         win_size |-> Min(min_interval, 4 * hop),
         min_length |-> RoundDiv(sr * min_length, 1000 * hop),
         min_interval |-> RoundDiv(min_interval, hop),
         max_sil_kept |-> RoundDiv(sr * max_sil_kept, 1000 * hop)]

\* the sample rates of the files and the settings of AUDIO_SLICE_CONFIG
\* considered, in milliseconds
SampleRates == {1000, 2000, 16000}
HopMs == 20
MinLengthMs == {60, 80}
MinIntervalMs == {40, 60}
MaxSilKeptMs == {20, 60}
\* the slicers __init__ accepts (lines 77-80)
CutSlicers ==
    {AudioSlicer_init(a[1], a[2], a[3], HopMs, a[4]) :
        a \in {b \in SampleRates \X MinLengthMs \X MinIntervalMs \X MaxSilKeptMs :
                  b[2] >= b[3] /\ b[3] >= HopMs /\ b[4] >= HopMs}}

\* the levels of a frame, and the first level that is not silent
MaxLevel == 2
SilenceLevel == 2
\* the longest rms_list considered
MaxRms == 7
RmsLists == UNION {[1..n -> 0..MaxLevel] : n \in 1..MaxRms}

\* get_rms pads the samples by win_size // 2 on both sides and takes a frame
\* every hop_size samples: with an even win_size a waveform of n samples
\* has n // hop_size + 1 frames.  The sample counts considered for an
\* rms_list: whole frames, one sample more, one sample short of a frame
SampleCounts(rms, p) ==
    {(Len(rms) - 1) * p.hop_size, (Len(rms) - 1) * p.hop_size + 1,
     Len(rms) * p.hop_size - 1}

\* (samples.shape[0] + self.hop_size - 1) // self.hop_size of line 112
frames_needed(n, p) == (n + p.hop_size - 1) \div p.hop_size

\* _apply_slice (lines 90-95): the samples of the frames begin..end-1 that
\* the waveform has
apply_slice_samples(n, p, begin, end) ==
    [begin |-> begin * p.hop_size, end |-> Min(n, end * p.hop_size)]

\* lines 173-183: the chunks between the ranges of sil_tags
chunks_between(tags, total_frames, n, p) ==
    IF Len(tags) = 0
    THEN <<[begin |-> 0, end |-> n]>>
    ELSE (IF tags[1][1] > 0
          THEN <<apply_slice_samples(n, p, 0, tags[1][1])>> ELSE <<>>)
         \o [i \in 1..(Len(tags) - 1) |->
                apply_slice_samples(n, p, tags[i][2], tags[i + 1][1])]
         \o (IF tags[Len(tags)][2] < total_frames
             THEN <<apply_slice_samples(n, p, tags[Len(tags)][2], total_frames)>>
             ELSE <<>>)

\* rms_list[a:b].argmin() + a: the first frame of the least level among the
\* frames a..b-1 that exist (frames count from 0)
ArgMinAt(rms, a, b) ==
    LET last == Min(b, Len(rms)) - 1
    IN  CHOOSE p \in a..last :
            /\ \A q \in a..last : rms[p + 1] <= rms[q + 1]
            /\ \A q \in a..(p - 1) : rms[q + 1] > rms[p + 1]

\* line 131
is_leading_silence(i, silence_start, p) == silence_start = 0 /\ i > p.max_sil_kept
\* a cut wherever the silence is long enough, whatever the length of the clip
need_slice_any(i, silence_start, clip_start, p) == i - silence_start >= p.min_interval
\* line 132
need_slice_middle(i, silence_start, clip_start, p) ==
    i - silence_start >= p.min_interval /\ i - clip_start >= p.min_length

\* lines 137-162: the range recorded for the silence silence_start..i-1 and
\* the new clip_start
record_cut(rms, i, silence_start, p) ==
    IF i - silence_start <= p.max_sil_kept
    THEN LET pos == ArgMinAt(rms, silence_start, i + 1)
         IN  [tag |-> IF silence_start = 0 THEN <<0, pos>> ELSE <<pos, pos>>,
              clip_start |-> pos]
    ELSE IF i - silence_start <= p.max_sil_kept * 2
    THEN LET pos == ArgMinAt(rms, i - p.max_sil_kept, silence_start + p.max_sil_kept + 1)
             pos_l == ArgMinAt(rms, silence_start, silence_start + p.max_sil_kept + 1)
             pos_r == ArgMinAt(rms, i - p.max_sil_kept, i + 1)
         IN  IF silence_start = 0
             THEN [tag |-> <<0, pos_r>>, clip_start |-> pos_r]
             ELSE [tag |-> <<Min(pos_l, pos), Max(pos_r, pos)>>,
                   clip_start |-> Max(pos_r, pos)]
    ELSE LET pos_l == ArgMinAt(rms, silence_start, silence_start + p.max_sil_kept + 1)
             pos_r == ArgMinAt(rms, i - p.max_sil_kept, i + 1)
         IN  [tag |-> IF silence_start = 0 THEN <<0, pos_r>> ELSE <<pos_l, pos_r>>,
              clip_start |-> pos_r]

CutInit ==
    /\ DispIdle
    /\ CacheIdle
    /\ HandlerIdle
    /\ SliceIdle
    /\ SlicerIdle
    /\ OptIdle
    /\ ApiIdle
    /\ MixedIdle
    /\ TranscribeIdle
    /\ config = DefaultConfig
    /\ cutpc = "start"
    /\ cparams \in CutSlicers
    /\ crms \in RmsLists
    /\ csamples \in SampleCounts(crms, cparams)
    /\ ci = 0
    /\ csil = -1
    /\ cclip = 0
    /\ ctags = <<>>
    /\ cchunks = <<>>

\* lines 112-113: a waveform that needs at most min_length frames is
\* returned whole
CutShort ==
    /\ cutpc = "start"
    /\ frames_needed(csamples, cparams) <= cparams.min_length
    /\ cchunks' = <<[begin |-> 0, end |-> csamples]>>
    /\ cutpc' = "done"
    /\ UNCHANGED <<config, cparams, crms, ci, csil, cclip, ctags, csamples, notCut>>

\* lines 115-118: rms_list is computed and the loop begins
CutBegin ==
    /\ cutpc = "start"
    /\ frames_needed(csamples, cparams) > cparams.min_length
    /\ cutpc' = "loop"
    /\ UNCHANGED <<config, cparams, crms, ci, csil, cclip, ctags, cchunks, csamples, notCut>>

\* lines 120-163: one turn of `for i, rms in enumerate(rms_list)`
CutFrame ==
    /\ cutpc = "loop"
    /\ ci < Len(crms)
    /\ ci' = ci + 1
    /\ IF crms[ci + 1] < SilenceLevel
       THEN \* the frame is silent: the start of the silence is recorded
            /\ csil' = IF csil = -1 THEN ci ELSE csil
            /\ UNCHANGED <<cclip, ctags>>
       ELSE IF csil = -1
       THEN UNCHANGED <<csil, cclip, ctags>>
       ELSE IF /\ ~is_leading_silence(ci, csil, cparams)
               /\ ~need_slice_middle(ci, csil, cclip, cparams)
       THEN \* the silence is too short or the clip is: no cut
            /\ csil' = -1
            /\ UNCHANGED <<cclip, ctags>>
       ELSE LET cut == record_cut(crms, ci, csil, cparams)
            IN  /\ ctags' = Append(ctags, cut.tag)
                /\ cclip' = cut.clip_start
                /\ csil' = -1
    /\ UNCHANGED <<config, cutpc, cparams, crms, cchunks, csamples, notCut>>

\* lines 165-183: the trailing silence is recorded and the chunks between
\* the ranges are returned
CutTail ==
    /\ cutpc = "loop"
    /\ ci = Len(crms)
    /\ LET total_frames == Len(crms)
           tags == IF csil # -1 /\ total_frames - csil >= cparams.min_interval
                   THEN LET silence_end == Min(total_frames, csil + cparams.max_sil_kept)
                            pos == ArgMinAt(crms, csil, silence_end + 1)
                        IN  Append(ctags, <<pos, total_frames + 1>>)
                   ELSE ctags
       IN  /\ ctags' = tags
           /\ cchunks' = chunks_between(tags, total_frames, csamples, cparams)
    /\ cutpc' = "done"
    /\ UNCHANGED <<config, cparams, crms, ci, csil, cclip, csamples, notCut>>

CutNext ==
    \/ CutShort
    \/ CutBegin
    \/ CutFrame
    \/ CutTail

SpecCut == CutInit /\ [][CutNext]_vars

(***************************************************************************)
(* Claims about the dispatcher and the semaphore (Spec).                   *)
(***************************************************************************)
Waiting == {<<r, t>> \in Requests \X (1..MaxTasks) : t \in Tasks(r) /\ fut[r][t] = "waiting"}

\* C1: in every reachable state the number of workers between
\* transcribe_semaphore.acquire() and release() is at most
\* GLOBAL_TRANSCRIBE_LIMIT (max_concurrent_limit), whatever the pool sizes.
C1_GlobalBound == InFlight <= MAX_CONCURRENT(config)

\* the semaphore is saturated while a pool larger than the limit has a
\* worker blocked in acquire()
C1_Witness ==
    /\ InFlight = MAX_CONCURRENT(config)
    /\ Waiting # {}
    /\ \E r \in Requests : req[r].workers > MAX_CONCURRENT(config)

\* C2: every call that acquired a permit releases exactly one, whether the
\* engine returns or raises: available permits + calls in flight is always
\* GLOBAL_TRANSCRIBE_LIMIT, and with no call in flight every permit is back.
C2_PermitsConserved ==
    /\ permits + InFlight = MAX_CONCURRENT(config)
    /\ (InFlight = 0 => permits = MAX_CONCURRENT(config))

\* a request whose calls have all ended, one by raising and one by
\* returning, with every permit back
C2_Witness ==
    \E r \in Requests :
        /\ rpc[r] = "dispatch"
        /\ \E t, u \in Tasks(r) : fut[r][t] = "err" /\ fut[r][u] = "ok"
        /\ InFlight = 0
        /\ permits = MAX_CONCURRENT(config)

\* exactly one entry of results[r] belongs to task t
OneSlot(r, t) == Cardinality({i \in 1..Len(results[r]) : results[r][i].task = t}) = 1

\* C7: in batch and in slice dispatch, when the strategy returns, every
\* submitted task has run to completion, a task whose engine call failed has
\* an error entry in its own slot (and only such a task), the number of
\* collected results is the number of submitted tasks, and the envelope
\* returned is a success.
C7_FailureIsolated ==
    [][\A r \in Requests :
          (rpc[r] = "dispatch" /\ rpc'[r] = "done") =>
              /\ \A t \in Tasks(r) : fut[r][t] \in {"ok", "err"}
              /\ Len(results[r]) = req[r].n
              /\ \A t \in Tasks(r) : OneSlot(r, t)
              /\ \A i \in 1..Len(results[r]) :
                    /\ results[r][i].error = (fut[r][results[r][i].task] = "err")
                    /\ results[r][i].id = req[r].ids[results[r][i].task]
              /\ response'[r].success
              /\ response'[r].code = 200]_vars

\* a batch request and a slice request have both returned a success
\* envelope that holds an error entry next to successful entries
C7_Witness ==
    \E r1, r2 \in Requests :
        /\ rpc[r1] = "done" /\ rpc[r2] = "done"
        /\ response[r1].success /\ response[r2].success
        /\ response[r1].data.strategy = "batch_parallel"
        /\ response[r1].data.processed_files >= 2
        /\ response[r1].data.errors >= 1
        /\ response[r1].data.errors < response[r1].data.processed_files
        /\ response[r2].data.strategy = "sliced_parallel"
        /\ response[r2].data.slice_count >= 2
        /\ response[r2].data.failed_slices >= 1
        /\ response[r2].data.successful_slices >= 1

\* C18: in the batch strategy every input file has an entry in results:
\* an error entry for a file whose content_type is not allowed, its own
\* result for a valid file.  The payload of a returned batch then holds
\* as many results as the request had files.
C18_InvalidFilesReported ==
    \A r \in Requests :
        (/\ response[r].success
         /\ response[r].data.strategy = "batch_parallel")
        => response[r].data.processed_files = response[r].data.total_files

\* C22: the event loop thread runs no blocking work: while the tasks of
\* one request are being dispatched and awaited, the event loop can start
\* the strategy of another request that is ready.
C22_LoopStaysFree ==
    \A r1, r2 \in Requests :
        (rpc[r1] = "dispatch" /\ rpc[r2] = "ready")
        => (ENABLED BeginBatch(r2)) /\ (ENABLED BeginSlice(r2))

\* a task of request r was handed to the pool and has not completed
Unfinished(r) == {t \in Tasks(r) : fut[r][t] \in {"queued", "waiting", "engine"}}
\* worker t of the request in dispatch stands in transcribe_semaphore.acquire()
Blocked(t) == \E r \in Requests : t \in Tasks(r) /\ fut[r][t] = "waiting"
\* worker t of the request in dispatch holds a permit
Holding(t) == \E r \in Requests : t \in Tasks(r) /\ fut[r][t] = "engine"

\* C23: under fair scheduling and engine calls that end, a worker blocked
\* in transcribe_semaphore.acquire() gets its permit, every task handed to
\* a pool completes, and the dispatch of every request returns.
C23_NoDeadlock ==
    /\ \A r \in Requests : (rpc[r] = "dispatch") ~> (rpc[r] = "done")
    /\ \A r \in Requests :
          (Unfinished(r) # {}) ~> (rpc[r] = "dispatch" /\ Unfinished(r) = {})
    /\ \A t \in 1..MaxTasks : Blocked(t) ~> Holding(t)

\* a worker is blocked on the saturated semaphore while the pool of its
\* request still has a queued task
C23_Witness ==
    \E r \in Requests : \E t, u \in Tasks(r) :
        /\ permits = 0
        /\ fut[r][t] = "waiting"
        /\ fut[r][u] = "queued"

(***************************************************************************)
(* Claims about the model cache (SpecCache).                               *)
(***************************************************************************)
\* the number of handles constructed for key
Constructions(key) == Cardinality({h \in 1..Len(constructed) : constructed[h] = key})

\* C3: for a key absent from the cache and concurrent get_model calls with
\* no clear in between, snapshot_download is invoked at most once, at most
\* one handle is constructed and inserted, and every caller that returns
\* gets that handle.
C3_SingleFlight ==
    /\ \A m \in ModelNames : fetches[m] <= 1
    /\ ~cleared =>
          /\ \A h \in 1..Len(constructed) :
                /\ Constructions(constructed[h]) = 1
                /\ Cached(constructed[h])
                /\ loaded_models[constructed[h]] = h
          /\ \A c \in Callers :
                caller[c].pc = "returned" =>
                    /\ Cached(caller[c].key)
                    /\ caller[c].ret = loaded_models[caller[c].key]

\* two callers that both missed the same key before the lock have returned
\* the one handle, after one download
C3_Witness ==
    \E c1, c2 \in Callers :
        /\ c1 # c2
        /\ ~cleared
        /\ caller[c1].pc = "returned" /\ caller[c2].pc = "returned"
        /\ caller[c1].slow /\ caller[c2].slow
        /\ caller[c1].key = caller[c2].key
        /\ caller[c1].ret = caller[c2].ret
        /\ fetches[caller[c1].key[1]] = 1

\* a get_model call is downloading or constructing
Loading(c) == caller[c].pc \in {"download", "construct"}

\* C14: the load of one key does not have to wait for the load of another
\* key: a call that waits for the lock with an absent key, while a call for
\* a different key is downloading or constructing, can go on and load in
\* parallel.
C14_ParallelLoads ==
    \A c1, c2 \in Callers :
        (/\ Loading(c1)
         /\ caller[c2].pc = "wait_lock"
         /\ caller[c2].key # caller[c1].key
         /\ ~Cached(caller[c2].key))
        => ENABLED LockAcquire(c2)

\* C15: when the download or the construction fails inside get_model, the
\* call raises and loaded_models is left as it was: the key is not inserted
\* and every cached key keeps its handle.
C15_FailureLeavesCache ==
    [][\A c \in Callers :
          (Loading(c) /\ caller'[c].pc \notin {"download", "construct", "stored"})
          => (caller'[c].pc = "raised" /\ loaded_models' = loaded_models)]_vars

\* a call failed for an absent key while another key stays cached
C15_Witness ==
    \E c \in Callers :
        /\ caller[c].pc = "raised"
        /\ caller[c].key # <<>>
        /\ ~cleared
        /\ ~Cached(caller[c].key)
        /\ loaded_models # <<>>

\* C25: a get_model call whose download and construction succeeded returns
\* its handle, whatever clear_model_cache does meanwhile: it never ends in
\* KeyError.
C25_BuiltIsReturned ==
    \A c \in Callers : caller[c].built => caller[c].pc # "raised"

\* C26: no handle is constructed from a directory whose download did not
\* complete: a call that reaches the WhisperModel constructor after a
\* failed download of its model has had the downloader run again, so the
\* directory it constructs from is complete.
C26_ConstructFromComplete ==
    \A c \in Callers :
        caller[c].pc = "construct" => model_dir[caller[c].key[1]] = "complete"

(***************************************************************************)
(* Claims about the handler (SpecHandler).                                 *)
(***************************************************************************)
\* C4: when the response of a transcribe request is returned, every
\* temporary upload file the handler created has been unlinked, on the
\* success path and on every failure path.
C4_UploadsUnlinked == hpc = "done" => temp_files = {}

\* the paths on which the cleanup does hold: every created file had joined
\* file_infos before the handler left the upload loop
C4_UnlinkedWhenListed ==
    (hpc = "done" /\ created = CleanupPaths(file_infos)) => temp_files = {}

\* C12: the strategy chosen is slice_only exactly for one file that
\* requires slicing with auto_slice set, mixed exactly for several files of
\* which one requires slicing with auto_slice set, and batch_only in every
\* other case, so always batch_only when auto_slice is off.
C12_DecisionTable ==
    hstrategy # None =>
        LET n == Len(file_infos)
            long == {i \in 1..n : file_infos[i].duration > 480}
        IN  /\ hstrategy = "slice_only" <=> (n = 1 /\ hreq.auto_slice /\ long # {})
            /\ hstrategy = "mixed" <=> (n > 1 /\ hreq.auto_slice /\ long # {})
            /\ hstrategy = "batch_only" <=> (~hreq.auto_slice \/ long = {})
            /\ hstrategy \in {"slice_only", "mixed", "batch_only"}

\* a single long file was routed to slice_only
C12_Witness ==
    /\ hstrategy = "slice_only"
    /\ Len(file_infos) = 1
    /\ file_infos[1].requires_slicing
    /\ hreq.auto_slice

\* C17: a transcribe request whose model_name is not in SUPPORTED_MODELS
\* is answered {success: false, code: 400}; the handler never creates a
\* temporary file, never reaches the get_model call of line 65 and never
\* reaches a strategy (the only callers of the engine).
C17_UnsupportedModelRejected ==
    ~hreq.model_supported =>
        /\ hpc \in {"start", "done"}
        /\ created = {} /\ temp_files = {}
        /\ hstrategy = None
        /\ hpc = "done" => hresponse = error_response(400)

C17_Witness ==
    /\ ~hreq.model_supported /\ hreq.nfiles >= 1
    /\ hpc = "done" /\ hresponse = error_response(400)

(***************************************************************************)
(* Claims about the slice pipeline (SpecSlice).                            *)
(***************************************************************************)
\* process_slice_strategy returned its data
SliceReturned == spc \in {"finally", "done"}
\* process_slice_strategy returned the aggregate of its slices
SliceSucceeded == SliceReturned /\ sdata.error = None
\* the compaction step is over
AfterCompaction == spc \in {"compacted", "dispatch", "finally", "done"}

\* C5: when process_slice_strategy has returned (its finally block ran),
\* every slice WAV the slicer wrote and every merged WAV the compactor wrote
\* has been unlinked, on success and on failure.
C5_SliceFilesUnlinked == spc = "done" => disk = {}

\* C6: the result of the file is built only after every dispatched slice
\* task has been delivered: total_slices is the number of slices dispatched,
\* which is slice_count, and successful_slices + failed_slices is
\* total_slices, whatever the order of completion.
C6_ResultAfterAllSlices ==
    SliceSucceeded =>
        /\ Len(sfut) = Len(slice_infos)
        /\ \A t \in 1..Len(sfut) : sfut[t].state = "collected"
        /\ sdata.total_slices = Len(slice_infos)
        /\ sdata.total_slices = sdata.slice_count
        /\ sdata.successful_slices + sdata.failed_slices = sdata.total_slices
        /\ sdata.successful_slices >= 0
        /\ sdata.failed_slices >= 0

\* a compacted run of three tasks collected out of their order, with a
\* failed slice and a successful one, has returned
C6_Witness ==
    /\ spc = "done"
    /\ sdata.error = None
    /\ sdata.total_slices = 3
    /\ sdata.failed_slices >= 1
    /\ sdata.successful_slices >= 1
    /\ sresults[1].slice_start_time > sresults[2].slice_start_time

\* C8: the list used for dispatch after the compaction step has at most
\* max_total_slices entries, for every slicer list and every cap >= 1.
C8_CompactionBound ==
    AfterCompaction => Len(slice_infos) <= config.max_total_slices

\* a slicer list longer than the cap was compacted to exactly the cap
C8_Witness ==
    /\ spc = "compacted"
    /\ Len(slicer_out) > config.max_total_slices
    /\ config.max_total_slices > 1
    /\ Len(slice_infos) = config.max_total_slices

\* C9: the sum of the durations of the compacted list is the sum of the
\* durations of the slicer's list, on every path of the merge of a batch.
C9_DurationPreserved ==
    AfterCompaction => SumDuration(slice_infos) = SumDuration(slicer_out)

\* C10: in the result of a sliced file the segments are ordered by start,
\* for every order of completion, and each segment has start <= end.
C10_SegmentsMonotone ==
    SliceSucceeded =>
        \A i \in 1..Len(sdata.segments) :
            /\ sdata.segments[i].start <= sdata.segments[i].end
            /\ i < Len(sdata.segments) =>
                    sdata.segments[i].start <= sdata.segments[i + 1].start

\* slices collected out of their order, one of them with segments the
\* engine reported out of order, gave a result whose segments the sort moved
C10_Witness ==
    /\ spc = "done"
    /\ sdata.error = None
    /\ Len(sdata.segments) >= 3
    /\ Len(sresults) >= 2
    /\ sresults[1].slice_start_time > sresults[2].slice_start_time
    /\ sdata.segments # AllSegments(sort_by_slice_start_time(sresults))

\* C21: a file whose slicing yields no chunk ends as an error entry, never
\* as a successful result with an empty transcript, with max_concurrent
\* pinned or not.
C21_ZeroChunksIsFailure ==
    (SliceReturned /\ slicer_out = <<>>) => sdata.error # None

\* the results of the slices in the order of the list the tasks were made
\* from, which ascends in start_time
InStartOrder ==
    [k \in 1..Len(slice_infos) |->
        sresults[CHOOSE i \in 1..Len(sresults) :
                    sresults[i].slice_index = slice_infos[k].index]]
\* the transcripts of the results without error, a single space between two
RECURSIVE JoinWithSpace(_)
JoinWithSpace(rs) ==
    IF rs = <<>> THEN <<>>
    ELSE IF Head(rs).error THEN JoinWithSpace(Tail(rs))
    ELSE IF CountErrors(Tail(rs)) = Len(Tail(rs)) THEN Head(rs).transcript
    ELSE Head(rs).transcript \o <<" ">> \o JoinWithSpace(Tail(rs))

\* C28: for every order of completion, transcript, segments, language and
\* language_probability of a sliced file are those of the aggregate of the
\* slice results taken in ascending slice_start_time: the language is that of
\* the first slice without error in that order, the transcript is the
\* transcripts joined by single spaces and has no trailing whitespace.
C28_OrderIndependent ==
    SliceSucceeded =>
        LET ordered == InStartOrder
            agg == aggregate_results(ordered)
            good == {k \in 1..Len(ordered) : ~ordered[k].error}
        IN  /\ \A k \in 1..(Len(ordered) - 1) :
                    ordered[k].slice_start_time < ordered[k + 1].slice_start_time
            /\ sdata.transcript = agg.transcript
            /\ sdata.segments = agg.segments
            /\ sdata.language = agg.language
            /\ sdata.language_probability = agg.language_probability
            /\ sdata.transcript = Strip(JoinWithSpace(ordered))
            /\ sdata.transcript # <<>> => sdata.transcript[Len(sdata.transcript)] # " "
            /\ good # {} =>
                    LET first == CHOOSE k \in good : \A j \in good : k <= j
                    IN  /\ sdata.language = ordered[first].language
                        /\ sdata.language_probability = ordered[first].language_probability

\* three slices completed latest first, with another language detected on
\* the slice that completed first than on the first slice of the file
C28_Witness ==
    /\ spc = "done"
    /\ sdata.error = None
    /\ Len(sresults) = 3
    /\ sresults[1].slice_start_time > sresults[2].slice_start_time
    /\ sresults[2].slice_start_time > sresults[3].slice_start_time
    /\ ~sresults[1].error /\ ~sresults[3].error
    /\ sresults[1].language # sresults[3].language
    /\ sdata.language = sresults[3].language
    /\ Len(sdata.transcript) >= 3

\* what the optimizer can return for n slices on the machines considered
OptimizerResults(n) ==
    {calculate_optimal_concurrency(config, cores, load, n, duration, csl) :
        cores \in CoreChoices, load \in LoadSamples,
        duration \in LongDurations, csl \in BOOLEAN}

\* C31: with max_concurrent pinned the pool of the slice strategy has
\* exactly min(max_concurrent, number of slices after compaction) workers,
\* whatever the machine and its load; with max_concurrent absent it has the
\* number the optimizer returns for that number of slices.
C31_PinnedPoolSize ==
    [][(spc = "compacted" /\ spc' = "dispatch") =>
          IF smax.pinned
          THEN sworkers' = Min(smax.value, Len(slice_infos))
          ELSE sworkers' \in OptimizerResults(Len(slice_infos))]_vars

\* four chunks were compacted to two and a request pinned to 3 got 2 workers
C31_Witness ==
    /\ spc = "dispatch"
    /\ smax.pinned /\ smax.value = 3
    /\ Len(slicer_out) = 4
    /\ Len(slice_infos) = 2
    /\ sworkers = 2

\* the results of process_slice that exist: held by a finished future or
\* already collected
DispatchedResults ==
    {sfut[t].result : t \in {u \in SliceTasks : sfut[u].state = "done"}}
    \cup {sresults[i] : i \in 1..Len(sresults)}

\* C32: after compaction a merged entry has the index and the start_time of
\* the first slice of its batch and lists the indices of the batch in order;
\* the indices of the list increase strictly, its start_time never
\* decreases, and the slice_index of every dispatched result names exactly
\* one entry of the list.
C32_CompactedOrder ==
    AfterCompaction =>
        /\ \A k \in 1..Len(slice_infos) :
              slice_infos[k].is_merged =>
                /\ slice_infos[k].merged_count >= 2
                /\ slice_infos[k].original_indices =
                        [j \in 1..slice_infos[k].merged_count |-> slice_infos[k].index + j - 1]
                /\ slice_infos[k].start_time = slicer_out[slice_infos[k].index + 1].start_time
                /\ k < Len(slice_infos) =>
                        slice_infos[k + 1].index =
                            slice_infos[k].index + slice_infos[k].merged_count
        /\ \A k \in 1..(Len(slice_infos) - 1) :
              /\ slice_infos[k].index < slice_infos[k + 1].index
              /\ slice_infos[k].start_time <= slice_infos[k + 1].start_time
        /\ \A r \in DispatchedResults :
              Cardinality({k \in 1..Len(slice_infos) :
                              slice_infos[k].index = r.slice_index}) = 1

\* four chunks were merged two by two and both merged slices were transcribed
C32_Witness ==
    /\ spc = "done"
    /\ Len(slicer_out) = 4
    /\ Len(slice_infos) = 2
    /\ slice_infos[1].is_merged /\ slice_infos[2].is_merged
    /\ slice_infos[2].index = 2
    /\ Len(sresults) = 2
    /\ sresults[1].slice_index = 2

(***************************************************************************)
(* Claims about the slicer and the re-anchoring (SpecSlicer).              *)
(***************************************************************************)
\* the frames of the file an entry of the list stands for: those of its
\* chunk, or from its first to its last member when it was merged
SourceSpan(info) ==
    [begin |-> kspans[info.index + 1].begin,
     end |-> kspans[info.index + Max(1, info.merged_count)].end]
\* the duration of the file the slicer was given
SourceDuration == waveform_frames(kframes)

\* C11: the start_time given to slice k is the position t_k of its first
\* frame in the file, and every segment the engine reports inside
\* [0, d_k] of slice k is emitted inside [t_k, t_k + d_k] of the file.
C11_AnchoredAtSource ==
    /\ \A k \in 1..Len(kinfos) : kinfos[k].start_time = SourceSpan(kinfos[k]).begin
    /\ \A i \in 1..Len(ksegs) :
          LET span == SourceSpan(find_slice(kinfos, ksegs[i].slice_index))
          IN  span.begin <= ksegs[i].start /\ ksegs[i].end <= span.end

\* C24: with segments the engine reports inside [0, duration] of their
\* slice, every slice ends within the file (start_time + duration is at
\* most the duration of the source) and so does every segment of the
\* result, before and after compaction.
C24_WithinSource ==
    /\ \A k \in 1..Len(kinfos) :
          kinfos[k].start_time + kinfos[k].duration <= SourceDuration
    /\ \A i \in 1..Len(ksegs) :
          ksegs[i].start <= ksegs[i].end /\ ksegs[i].end <= SourceDuration

\* a file that lost no frame to silence was cut in three, compacted, and
\* the segment of its last slice ends with the file
C24_Witness ==
    /\ kpc = "done"
    /\ Len(kspans) = 3
    /\ \E k \in 1..Len(kinfos) : kinfos[k].is_merged
    /\ \E i \in 1..Len(ksegs) : ksegs[i].end = SourceDuration

\* C33: the list slice_audio_file returns has the indices 0..n-1 in order,
\* a start_time that never decreases, and entries that do not overlap:
\* start_time[i+1] >= start_time[i] + duration[i], for every waveform and
\* every placement of the silent ranges.
C33_SlicerListOrdered ==
    kpc = "saved" =>
        /\ \A k \in 1..Len(kinfos) :
              /\ kinfos[k].index = k - 1
              /\ kinfos[k].duration >= 0
        /\ \A k \in 1..(Len(kinfos) - 1) :
              /\ kinfos[k].index < kinfos[k + 1].index
              /\ kinfos[k].start_time <= kinfos[k + 1].start_time
              /\ kinfos[k + 1].start_time >= kinfos[k].start_time + kinfos[k].duration

\* three chunks were saved from a file with silence removed inside it
C33_Witness ==
    /\ kpc = "saved"
    /\ Len(kinfos) = 3
    /\ \E i \in 1..Len(ktags) : 0 < ktags[i][1] /\ ktags[i][1] < ktags[i][2]
    /\ kinfos[3].start_time > 0

(***************************************************************************)
(* Claims about the optimizer (SpecOptimizer).                             *)
(***************************************************************************)
\* C13: whatever the slice count, the duration, the core count and the
\* sampled load, calculate_optimal_concurrency returns a value between
\* min_concurrent_limit and max_concurrent_limit.
C13_OptimizerClamped ==
    opc = "returned" =>
        /\ config.min_concurrent_limit <= oout
        /\ oout <= config.max_concurrent_limit

\* a call on a single core machine was raised to the lower limit 2
C13_Witness ==
    /\ opc = "returned"
    /\ oin.cores = 1
    /\ config.min_concurrent_limit = 2
    /\ oout = 2

\* clamp(x, lo, hi) for lo <= hi
Clamp(x, lo, hi) == Min(Max(x, lo), hi)

\* C29: calculate_optimal_concurrency returns clamp(min(hard, soft), MIN,
\* LIMIT) with soft = max(slice_based, duration_based, L) and hard =
\* min(cpu_based, LIMIT), L being load_based when consider_system_load and
\* cpu_based otherwise; the result exceeds cpu_based only when MIN does.
C29_OptimizerFormula ==
    opc = "returned" =>
        LET cpu_based == calculate_cpu_based(oin.cores)
            L == IF oin.consider_system_load
                 THEN calculate_load_based(oin.cores, oin.load)
                 ELSE cpu_based
            soft == Max3(calculate_slice_based(config, oin.total_slices),
                         calculate_duration_based(config, oin.cores, oin.audio_duration),
                         L)
            hard == Min(cpu_based, config.max_concurrent_limit)
        IN  /\ oout = Clamp(Min(hard, soft), config.min_concurrent_limit,
                            config.max_concurrent_limit)
            /\ oout <= Max(cpu_based, config.min_concurrent_limit)

\* a call without load sampling whose soft recommendation was cut down to
\* cpu_based, below the limit of the configuration
C29_Witness ==
    /\ opc = "returned"
    /\ ~oin.consider_system_load
    /\ oin.cores = 5
    /\ oin.audio_duration = 3601
    /\ config.max_concurrent_limit = 8
    /\ oout = 3

\* the load-based candidate as stated: either sample at 80 or above gives
\* max(1, cores div 2), a cpu sample above 60 max(2, cores - 2), anything
\* else cores, and a sampling failure max(2, cores - 2)
StatedLoadBased(cores, load) ==
    IF ~load.ok THEN Max(2, cores - 2)
    ELSE IF load.cpu >= 80 \/ load.mem >= 80 THEN Max(1, cores \div 2)
    ELSE IF load.cpu > 60 THEN Max(2, cores - 2)
    ELSE cores

\* C30: for every whole cpu_percent and memory percent from 0 to 100 and for
\* a sampling failure, the load-based candidate of a call that considers
\* the load is the stated one.
C30_LoadThresholds ==
    (opc = "returned" /\ oin.consider_system_load) =>
        calculate_load_based(oin.cores, oin.load) = StatedLoadBased(oin.cores, oin.load)

(***************************************************************************)
(* Claims about the model cache endpoints (SpecApi).                       *)
(***************************************************************************)
\* C16: when a POST /model-cache/clear request completes the model cache is
\* empty, and a GET /model-cache/status that follows with no insertion in
\* between reports cache_size 0.
C16_ClearEmptiesCache ==
    [][/\ (api_pc = "idle" /\ api_pc' = "cleared") => loaded_models' = <<>>
       /\ (api_pc = "cleared" /\ api_pc' = "idle" /\ loaded_models = <<>>)
             => cache_size' = 0]_vars

(***************************************************************************)
(* Claims about the mixed strategy (SpecMixed).                            *)
(***************************************************************************)
\* a future of pool p + 1 was submitted and its task has not finished
PhaseInFlight(p) ==
    \E t \in DOMAIN mtask[p + 1].st : mtask[p + 1].st[t] \in {"queued", "running"}
\* a task of pool p + 1 has been started by a thread
PhaseStarted(p) == \E t \in DOMAIN mtask[p + 1].st : mtask[p + 1].st[t] # "queued"

\* C19: within one request of the mixed strategy, the slicing of a long
\* file and every transcription of its slices begin only when every task
\* of the batch phase and of the long files before it has finished, and
\* slice tasks of two long files are never in flight together.
C19_PhasesInSequence ==
    /\ \A q \in 1..(Len(mtask) - 1) :
          (q \in msliced \/ PhaseStarted(q)) => \A p \in 0..(q - 1) : ~PhaseInFlight(p)
    /\ \A p, q \in 1..(Len(mtask) - 1) : (p # q) => ~(PhaseInFlight(p) /\ PhaseInFlight(q))

C19_Witness ==
    /\ Len(mtask) >= 3
    /\ Len(mtask[1].st) >= 1
    /\ Len(mtask[2].st) >= 2
    /\ PoolRunning(mtask[3]) >= 1

\* C27: no slice file and no upload temp file is unlinked while a task of
\* the request that reads it is still queued or running: every such task
\* finds its file on disk.
C27_FilesOutliveTasks ==
    \A p \in 0..(Len(mtask) - 1) : \A t \in DOMAIN mtask[p + 1].st :
        (mtask[p + 1].st[t] \in {"queued", "running"})
        => (TaskFile(mfiles, p, t) \in mdisk)

\* both pools ran, the slice files of a long file and the uploads were unlinked
C27_Witness ==
    /\ mpc = "closed"
    /\ Len(mtask[1].st) >= 1
    /\ Len(mtask[2].st) >= 2
    /\ mdisk = {}

(***************************************************************************)
(* Claims about transcribe_audio (SpecTranscribe).                         *)
(***************************************************************************)
\* the keys of the dict a call returned
DictKeys(ret) ==
    IF ret.error THEN {"error"}
    ELSE {"transcript", "language", "language_probability", "segments"}

\* C20: transcribe_audio never raises to its caller.  A call whose engine
\* call or whose materialisation of the segment stream failed returns a
\* dict with the key error alone; any other call returns transcript,
\* language, language_probability and segments of the stream it was given.
C20_NeverRaises ==
    \A c \in TranscribeCalls :
        /\ tcall[c].pc # "raised"
        /\ tcall[c].pc = "returned" =>
              IF tcall[c].raised_at # "none"
              THEN DictKeys(tcall[c].ret) = {"error"}
              ELSE /\ DictKeys(tcall[c].ret) =
                          {"transcript", "language", "language_probability", "segments"}
                   /\ tcall[c].ret.segments = tcall[c].stream.segments
                   /\ tcall[c].ret.transcript = JoinText(tcall[c].stream.segments)
                   /\ tcall[c].ret.language = tcall[c].stream.language
                   /\ tcall[c].ret.language_probability
                          = tcall[c].stream.language_probability

\* a call whose stream failed while it was materialised has returned its
\* error dict, next to a call that returned a transcript
C20_Witness ==
    \E c1, c2 \in TranscribeCalls :
        /\ tcall[c1].pc = "returned" /\ tcall[c1].raised_at = "list"
        /\ tcall[c1].ret.error
        /\ tcall[c2].pc = "returned" /\ ~tcall[c2].ret.error
        /\ tcall[c2].ret.segments # <<>>

(***************************************************************************)
(* Claims about the frame loop of the slicer (SpecCut).                    *)
(***************************************************************************)
\* the loop is at a frame that is not silent and ends a silence
EndsSilence == cutpc = "loop" /\ ci < Len(crms) /\ crms[ci + 1] >= SilenceLevel /\ csil # -1
\* the silence that ends at frame ci may be cut, as stated
CutWorthy ==
    \/ csil = 0 /\ ci > cparams.max_sil_kept
    \/ ci - csil >= cparams.min_interval /\ ci - cclip >= cparams.min_length

\* C34: the loop records a cut for a silence that ends at the frame i only
\* when the silence began at frame 0 and i > max_sil_kept, or when both
\* i - silence_start >= min_interval and i - clip_start >= min_length; any
\* other silence is dropped without a cut; the ranges recorded are in order
\* and no chunk returned has a negative length.
C34_CutOnlyWhenWorthy ==
    [][/\ (cutpc = "loop" /\ cutpc' = "loop" /\ ctags' # ctags)
            => (EndsSilence /\ CutWorthy)
       /\ (EndsSilence /\ ~CutWorthy) => (ctags' = ctags /\ csil' = -1)
       /\ \A k \in 1..Len(ctags') : ctags'[k][1] <= ctags'[k][2]
       /\ \A k \in 1..(Len(ctags') - 1) : ctags'[k][2] <= ctags'[k + 1][1]
       /\ \A k \in 1..Len(cchunks') : cchunks'[k].begin <= cchunks'[k].end]_vars

\* a file was cut inside a silence after a shorter silence had been dropped
C34_Witness ==
    /\ cutpc = "done"
    /\ cparams.min_interval >= 2
    /\ Len(cchunks) = 2
    /\ \E k \in 1..Len(ctags) :
          /\ ctags[k][1] > 0
          /\ ctags[k][2] < Len(crms)
          /\ \E f \in 1..(ctags[k][1] - 2) :
                /\ crms[f + 1] < SilenceLevel
                /\ crms[f] >= SilenceLevel
                /\ crms[f + 2] >= SilenceLevel

\* C35: min_interval is honoured in milliseconds at every sample rate: the
\* frames of min_interval last at least min_interval ms, and a silence
\* inside the file that lasted less than min_interval ms is never cut.  A
\* frame lasts hop_size / sr seconds.
C35_MinIntervalInMs ==
    [][/\ cparams.min_interval * cparams.hop_size * 1000
            >= cparams.min_interval_ms * cparams.sr
       /\ (cutpc = "loop" /\ cutpc' = "loop" /\ ctags' # ctags /\ csil > 0)
            => (ci - csil) * cparams.hop_size * 1000
                    >= cparams.min_interval_ms * cparams.sr]_vars

(***************************************************************************)
(* Claims about the compute type fallback and the fast path (SpecCache).   *)
(***************************************************************************)
\* the first entry of DEVICE_COMPUTE_COMPATIBILITY[device]
Fallback(device) == DEVICE_COMPUTE_COMPATIBILITY[device][1]

\* the call of c is inside get_model, or has left it with a key
HasLoaderKey(c) == caller[c].key # <<>> /\ caller[c].pc # "precheck"

\* the call of c asked for a compute type its (supported) device does not have
AskedUnsupported(c) ==
    /\ caller[c].args # <<>>
    /\ caller[c].args[2] \in SupportedDevices
    /\ caller[c].args[3] \notin Compat(caller[c].args[2])

\* the call of c asked for the first compute type of its (supported) device
AskedFallback(c) ==
    /\ caller[c].args # <<>>
    /\ caller[c].args[2] \in SupportedDevices
    /\ caller[c].args[3] = Fallback(caller[c].args[2])

\* C36: for a supported device, a call whose compute_type is not in
\* DEVICE_COMPUTE_COMPATIBILITY[device] works on the key of the first
\* compute type of the device; every key that is or ever was in the cache
\* has a compute type its device supports; and, with no clear in between,
\* such a call and a call that asks for the first compute type return one
\* handle, constructed once.
C36_CoercedSharesHandle ==
    /\ \A key \in DOMAIN loaded_models :
          key[2] \in SupportedDevices /\ key[3] \in Compat(key[2])
    /\ \A h \in 1..Len(constructed) :
          constructed[h][2] \in SupportedDevices
             /\ constructed[h][3] \in Compat(constructed[h][2])
    /\ \A c \in Callers :
          (AskedUnsupported(c) /\ HasLoaderKey(c)) =>
              caller[c].key = <<caller[c].args[1], caller[c].args[2],
                                Fallback(caller[c].args[2])>>
    /\ ~cleared =>
          \A c1, c2 \in Callers :
              (/\ AskedUnsupported(c1) /\ AskedFallback(c2)
               /\ caller[c1].args[1] = caller[c2].args[1]
               /\ caller[c1].args[2] = caller[c2].args[2]
               /\ caller[c1].pc = "returned" /\ caller[c2].pc = "returned")
              => /\ caller[c1].ret = caller[c2].ret
                 /\ Constructions(caller[c2].args) = 1

\* a call with float16 on cpu built the handle, and a call with float32 got
\* the same handle on the fast path
C36_Witness ==
    \E c1, c2 \in Callers :
        /\ ~cleared
        /\ caller[c1].pc = "returned" /\ caller[c2].pc = "returned"
        /\ caller[c1].args[2] = "cpu" /\ caller[c1].args[3] = "float16"
        /\ caller[c2].args = <<caller[c1].args[1], "cpu", "float32">>
        /\ caller[c1].built /\ ~caller[c2].slow
        /\ caller[c1].ret = caller[c2].ret
        /\ Constructions(caller[c2].args) = 1

\* C37: a get_model call whose key is in loaded_models goes from the look at
\* line 29 to the read at line 30 and returns the cached handle; neither
\* step waits for the lock or changes it, whoever holds it, and the call
\* never holds the lock.
C37_FastPathLockFree ==
    [][\A c \in Callers :
          /\ (caller[c].pc = "check" /\ Cached(caller[c].key))
                => /\ ENABLED FastCheck(c)
                   /\ caller'[c] # caller[c]
                        => (caller'[c].pc = "fast_read" /\ load_lock' = load_lock)
          /\ (caller[c].pc = "fast_read" /\ Cached(caller[c].key))
                => /\ ENABLED FastRead(c)
                   /\ caller'[c] # caller[c]
                        => /\ caller'[c].pc = "returned"
                           /\ caller'[c].ret = loaded_models[caller[c].key]
                           /\ load_lock' = load_lock
          /\ caller[c].pc = "fast_read" => load_lock # c]_vars

\* a call returned the cached handle from the fast path while the lock was
\* held by a call that is still loading a different key
C37_Witness ==
    \E c1, c2 \in Callers :
        /\ c1 # c2
        /\ caller[c1].pc = "returned" /\ ~caller[c1].slow
        /\ caller[c1].held = c2
        /\ load_lock = c2 /\ Loading(c2)
        /\ caller[c2].key # caller[c1].key
        /\ Cached(caller[c1].key)
        /\ caller[c1].ret = loaded_models[caller[c1].key]

====
